---- MODULE Spec2Model ----
(***************************************************************************)
(* Glacier Tax Helper: the persistent transaction queue, its processing    *)
(* lock, the TransactionProcessor state machine and the coordinator        *)
(* (background) handlers that write the queue.                             *)
(*                                                                         *)
(* chrome.storage.local is shared by every execution context.  Each        *)
(* storage call (get / set / remove) is one atomic step; the code between  *)
(* two storage calls of one asynchronous operation runs with the second    *)
(* call.  Proc is the set of asynchronous operations that can be in        *)
(* flight at once, in whatever context they run.                           *)
(***************************************************************************)
EXTENDS Integers, Sequences, FiniteSets, TLC

\* ------------------------------------------------------------------ bounds
MaxTicks == 2
MaxCalls == 2
MaxCallsSingle == 8
MaxOps == 2
MaxRecords == 3
MaxImports == 6
MaxPieces == 3
MaxDateParts == 4
MaxTransactions == 4

\* --------------------------------------------------------------- constants
LOCK_TIMEOUT == 30000
MAX_RETRY_ATTEMPTS == 3
NoLock == 0
NoId == 0

\* one clock tick is as long as the lock timeout, so that a lock is seen
\* exactly at the timeout (not stale) and beyond it (stale)
TickMs == LOCK_TIMEOUT
Proc == {1, 2}

\* ------------------------------------------------------------ record model
SaleDate == "2024-01-15"

Txn(id, description, salesPrice) ==
  [id |-> id, description |-> description, saleDate |-> SaleDate,
   salesPrice |-> salesPrice, costBasis |-> 90000,
   processingAttempts |-> 0, lastAttemptTimestamp |-> 0]

\* amounts are in thousandths; records 1 and 2 are the same logical
\* transaction imported twice (fresh id, amount differing past the cent)
T1 == Txn(1, "AAPL", 100000)
T2 == Txn(2, "AAPL", 100004)
T3 == Txn(3, "TSLA", 100000)
Universe == {T1, T2, T3}
Ids == {t.id : t \in Universe}

\* Math.round(x * 100) / 100, on thousandths: the amount in cents
Round2(x) == (x + 5) \div 10

Fingerprint(t) ==
  <<t.description, t.saleDate, Round2(t.salesPrice), Round2(t.costBasis)>>

HasFingerprint(ts, t) ==
  \E j \in 1..Len(ts) : Fingerprint(ts[j]) = Fingerprint(t)

\* a copy that returns the Map's values last insertion first
deduplicateTransactionsReversed(ts) ==
  LET uniqueMap[i \in 0..Len(ts)] ==
        IF i = 0 THEN <<>>
        ELSE IF HasFingerprint(uniqueMap[i-1], ts[i])
             THEN uniqueMap[i-1]
             ELSE <<ts[i]>> \o uniqueMap[i-1]
  IN uniqueMap[Len(ts)]

\* a copy without the has() test: Map.set() on a fingerprint already there
\* keeps the entry's place and replaces its value
deduplicateTransactionsLastWins(ts) ==
  LET uniqueMap[i \in 0..Len(ts)] ==
        IF i = 0 THEN <<>>
        ELSE IF HasFingerprint(uniqueMap[i-1], ts[i])
             THEN [j \in 1..Len(uniqueMap[i-1]) |->
                     IF Fingerprint(uniqueMap[i-1][j]) = Fingerprint(ts[i])
                     THEN ts[i] ELSE uniqueMap[i-1][j]]
             ELSE Append(uniqueMap[i-1], ts[i])
  IN uniqueMap[Len(ts)]

\* transaction-state-manager: Map keyed by fingerprint, first insertion kept,
\* values in insertion order
deduplicateTransactions(ts) ==
  LET uniqueMap[i \in 0..Len(ts)] ==
        IF i = 0 THEN <<>>
        ELSE IF HasFingerprint(uniqueMap[i-1], ts[i])
             THEN uniqueMap[i-1]
             ELSE Append(uniqueMap[i-1], ts[i])
  IN uniqueMap[Len(ts)]

\* a second copy whose Map is keyed by the record id
CSVProcessor_deduplicateTransactionsById(ts) ==
  LET uniqueMap[i \in 0..Len(ts)] ==
        IF i = 0 THEN <<>>
        ELSE IF \E j \in 1..Len(uniqueMap[i-1]) : uniqueMap[i-1][j].id = ts[i].id
             THEN uniqueMap[i-1]
             ELSE Append(uniqueMap[i-1], ts[i])
  IN uniqueMap[Len(ts)]

\* CSVProcessor.deduplicateTransactions: the same algorithm, second copy
CSVProcessor_deduplicateTransactions(ts) ==
  LET uniqueMap[i \in 0..Len(ts)] ==
        IF i = 0 THEN <<>>
        ELSE IF HasFingerprint(uniqueMap[i-1], ts[i])
             THEN uniqueMap[i-1]
             ELSE Append(uniqueMap[i-1], ts[i])
  IN uniqueMap[Len(ts)]

\* background/index.ts deduplicateQueue
deduplicateQueue(q) == CSVProcessor_deduplicateTransactions(q)

\* Array.prototype.filter(t => t.id !== id)
RECURSIVE FilterOutId(_, _)
FilterOutId(q, id) ==
  IF q = <<>> THEN <<>>
  ELSE IF Head(q).id = id THEN FilterOutId(Tail(q), id)
       ELSE <<Head(q)>> \o FilterOutId(Tail(q), id)

HasId(q, id) == \E j \in 1..Len(q) : q[j].id = id

NoDuplicates(q) ==
  \A i, j \in 1..Len(q) : i # j => Fingerprint(q[i]) # Fingerprint(q[j])

\* ------------------------------------------------------------ stored state
DefaultState == [status |-> "IDLE", queue |-> <<>>, failedTransactions |-> <<>>]

\* a Partial<state>: every field is absent (<<>>) or present (<<value>>)
NoUpdates == [status |-> <<>>, queue |-> <<>>, failedTransactions |-> <<>>]
StatusUpd(s) == [NoUpdates EXCEPT !.status = <<s>>]
QueueUpd(u, q) == [u EXCEPT !.queue = <<q>>]
FailedUpd(u, f) == [u EXCEPT !.failedTransactions = <<f>>]

\* updateState: newState = { ...currentState, ...updates } with updates.queue
\* deduplicated first
mergeUpdatesKeepingDuplicates(cur, u) ==
  [status |-> IF u.status = <<>> THEN cur.status ELSE u.status[1],
   queue |-> IF u.queue = <<>> THEN cur.queue ELSE u.queue[1],
   failedTransactions |-> IF u.failedTransactions = <<>>
                          THEN cur.failedTransactions
                          ELSE u.failedTransactions[1]]

mergeUpdates(cur, u) ==
  [status |-> IF u.status = <<>> THEN cur.status ELSE u.status[1],
   queue |-> IF u.queue = <<>> THEN cur.queue
             ELSE deduplicateTransactions(u.queue[1]),
   failedTransactions |-> IF u.failedTransactions = <<>>
                          THEN cur.failedTransactions
                          ELSE u.failedTransactions[1]]

NoFlags == [pendingCompletion |-> FALSE, pendingTransactionId |-> NoId,
            isProcessing |-> FALSE, currentTransactionId |-> NoId,
            addTransactionClicked |-> FALSE]

VARIABLES
  state,          \* storage[STORAGE_KEY] (absent = DefaultState)
  lock,           \* storage[LOCK_KEY] (absent = NoLock)
  flags,          \* the page-specific keys of chrome.storage.local
  formVisible,    \* checkFormElements(): the page shows the transaction form
  now,            \* Date.now()
  submitted,      \* SUBMIT_TRANSACTION messages sent, per record id
  budget,         \* operations that may still be invoked
  pc,             \* where each asynchronous operation stands
  op,             \* the operation each Proc runs, or ran last
  lockTimestamp,  \* acquireLock: const lockTimestamp
  existingLock,   \* acquireLock: const existingLock
  lockAcquired,   \* processNextTransaction: const lockAcquired
  currentState,   \* the caller's snapshot from getCurrentState()
  updates,        \* the argument of the pending updateState()
  newState,       \* updateState: const newState, computed in the get callback
  ret,            \* where the pending updateState() resumes
  result,         \* the value the operation returned
  transactionId,  \* the record id the operation is about
  dedupe,         \* a deduplicateTransactions() call: argument and result
  csv,            \* a CSVProcessor helper call: argument and result
  importer        \* inject.ts: its storage keys and the page's position

shared == <<state, lock, flags, formVisible, now, submitted, budget>>
locals == <<pc, op, lockTimestamp, existingLock, lockAcquired, currentState,
            updates, newState, ret, result, transactionId>>
vars == <<state, lock, flags, formVisible, now, submitted, budget, pc, op, lockTimestamp,
          existingLock, lockAcquired, currentState, updates, newState, ret,
          result, transactionId, dedupe, csv, importer>>
\* what the state manager, the processor, the coordinator and the content
\* script leave alone
aside == <<dedupe, csv, importer>>

MaxSubmitted == MAX_RETRY_ATTEMPTS + 1

\* no deduplicateTransactions() call is under observation
NoDedupe == [transactions |-> <<>>, deduplicated |-> <<>>,
             implementation |-> "none", calls |-> 0]

\* the per-operation locals before any operation was invoked
InitProcs ==
  /\ pc = [p \in Proc |-> "idle"]
  /\ op = [p \in Proc |-> "none"]
  /\ lockTimestamp = [p \in Proc |-> NoLock]
  /\ existingLock = [p \in Proc |-> NoLock]
  /\ lockAcquired = [p \in Proc |-> FALSE]
  /\ currentState = [p \in Proc |-> DefaultState]
  /\ updates = [p \in Proc |-> NoUpdates]
  /\ newState = [p \in Proc |-> DefaultState]
  /\ ret = [p \in Proc |-> "idle"]
  /\ result = [p \in Proc |-> "NONE"]
  /\ transactionId = [p \in Proc |-> NoId]

\* no CSVProcessor helper call is under observation
NoCsv == [fn |-> "none", input |-> <<>>, output |-> <<>>]

\* the page-attached importer has nothing stored and runs on no page
NoImporter == [status |-> "not ready", index |-> 0, transactions |-> 0,
               currentlyProcessing |-> FALSE, currentTransaction |-> 0,
               pc |-> "none", isOnTransactionForm |-> FALSE, items |-> 0,
               transaction |-> 0, currentIndex |-> 0, timer |-> FALSE,
               submits |-> <<>>]

InitLocals ==
  /\ InitProcs
  /\ dedupe = NoDedupe
  /\ csv = NoCsv
  /\ importer = NoImporter

Init ==
  /\ state = DefaultState
  /\ lock = NoLock
  /\ flags = NoFlags
  /\ formVisible = FALSE
  /\ now = TickMs
  /\ submitted = [i \in Ids |-> 0]
  /\ budget = MaxOps
  /\ InitLocals

\* ------------------------------------------------------------------- clock
Tick ==
  /\ now < (1 + MaxTicks) * TickMs
  /\ now' = now + TickMs
  /\ UNCHANGED <<state, lock, flags, formVisible, submitted, budget>>
  /\ UNCHANGED locals
  /\ UNCHANGED aside

\* a new operation takes the first free slot, while the budget lasts
CanStart(p) ==
  /\ pc[p] = "idle"
  /\ budget > 0
  /\ \A q \in Proc : q < p => pc[q] # "idle"

\* ---------------------------------------------- TransactionStateManager
\* an operation returns: its working copies are dropped
Return(p, r) ==
  /\ pc' = [pc EXCEPT ![p] = "idle"]
  /\ result' = [result EXCEPT ![p] = r]
  /\ lockTimestamp' = [lockTimestamp EXCEPT ![p] = NoLock]
  /\ existingLock' = [existingLock EXCEPT ![p] = NoLock]
  /\ currentState' = [currentState EXCEPT ![p] = DefaultState]
  /\ updates' = [updates EXCEPT ![p] = NoUpdates]
  /\ newState' = [newState EXCEPT ![p] = DefaultState]
  /\ ret' = [ret EXCEPT ![p] = "idle"]
  /\ UNCHANGED aside

\* a loop that goes on whatever processNextTransaction returned
PN_ReturnLoopingOnFailed(p, r) ==
  IF op[p] = "processNext"
  THEN Return(p, r)
  ELSE /\ pc' = [pc EXCEPT ![p] = "sp_loop"]
       /\ result' = [result EXCEPT ![p] = r]
       /\ lockTimestamp' = [lockTimestamp EXCEPT ![p] = NoLock]
       /\ existingLock' = [existingLock EXCEPT ![p] = NoLock]
       /\ currentState' = [currentState EXCEPT ![p] = DefaultState]
       /\ updates' = [updates EXCEPT ![p] = NoUpdates]
       /\ newState' = [newState EXCEPT ![p] = DefaultState]
       /\ ret' = [ret EXCEPT ![p] = "idle"]

\* processNextTransaction returns r: to its caller's caller, or into the
\* startProcessing loop, which goes on unless r is FAILED
PN_Return(p, r) ==
  IF op[p] = "processNext" \/ r = "FAILED"
  THEN Return(p, r)
  ELSE /\ pc' = [pc EXCEPT ![p] = "sp_loop"]
       /\ result' = [result EXCEPT ![p] = r]
       /\ lockTimestamp' = [lockTimestamp EXCEPT ![p] = NoLock]
       /\ existingLock' = [existingLock EXCEPT ![p] = NoLock]
       /\ currentState' = [currentState EXCEPT ![p] = DefaultState]
       /\ updates' = [updates EXCEPT ![p] = NoUpdates]
       /\ newState' = [newState EXCEPT ![p] = DefaultState]
       /\ ret' = [ret EXCEPT ![p] = "idle"]

\* updateState(u), resuming at r: the call is issued
CallUpdate(p, u, r) ==
  /\ pc' = [pc EXCEPT ![p] = "upd_get"]
  /\ updates' = [updates EXCEPT ![p] = u]
  /\ ret' = [ret EXCEPT ![p] = r]
  /\ UNCHANGED aside

\* updateState: storage.get callback, newState computed
UpdGet(p) ==
  /\ pc[p] = "upd_get"
  /\ newState' = [newState EXCEPT ![p] = mergeUpdates(state, updates[p])]
  /\ pc' = [pc EXCEPT ![p] = "upd_set"]
  /\ UNCHANGED shared
  /\ UNCHANGED <<op, lockTimestamp, existingLock, lockAcquired, currentState,
                 updates, ret, result, transactionId>>
  /\ UNCHANGED aside

\* updateState: storage.set of newState, then resolve()
UpdSet(p) ==
  /\ pc[p] = "upd_set"
  /\ state' = newState[p]
  /\ IF ret[p] = "idle"
     THEN Return(p, result[p])
     ELSE /\ pc' = [pc EXCEPT ![p] = ret[p]]
          /\ newState' = [newState EXCEPT ![p] = DefaultState]
          /\ updates' = [updates EXCEPT ![p] = NoUpdates]
          /\ UNCHANGED <<lockTimestamp, existingLock, currentState, ret,
                         result>>
  /\ UNCHANGED <<lock, flags, formVisible, now, submitted, budget>>
  /\ UNCHANGED <<op, lockAcquired, transactionId>>
  /\ UNCHANGED aside

\* acquireLock: Date.now() and the storage.get of LOCK_KEY
AcqGet(p) ==
  /\ \/ /\ CanStart(p)
        /\ budget' = budget - 1
        /\ op' = [op EXCEPT ![p] = "processNext"]
     \/ /\ pc[p] = "sp_call"
        /\ UNCHANGED <<budget, op>>
  /\ lockTimestamp' = [lockTimestamp EXCEPT ![p] = now]
  /\ existingLock' = [existingLock EXCEPT ![p] = lock]
  /\ lockAcquired' = [lockAcquired EXCEPT ![p] = FALSE]
  /\ result' = [result EXCEPT ![p] = "NONE"]
  /\ transactionId' = [transactionId EXCEPT ![p] = NoId]
  /\ pc' = [pc EXCEPT ![p] = "acq_cb"]
  /\ UNCHANGED <<state, lock, flags, formVisible, now, submitted>>
  /\ UNCHANGED <<currentState, updates, newState, ret>>
  /\ UNCHANGED aside

IsStaleAtTimeout(ts, existing, timeout) == ts - existing >= timeout

IsStale(ts, existing, timeout) == ts - existing > timeout

\* acquireLock, no lock seen: storage.set of the timestamp, resolve(true)
AcqNew(p) ==
  /\ pc[p] = "acq_cb"
  /\ existingLock[p] = NoLock
  /\ lock' = lockTimestamp[p]
  /\ lockAcquired' = [lockAcquired EXCEPT ![p] = TRUE]
  /\ pc' = [pc EXCEPT ![p] = "pn_get"]
  /\ UNCHANGED <<state, flags, formVisible, now, submitted, budget>>
  /\ UNCHANGED <<op, lockTimestamp, existingLock, currentState, updates,
                 newState, ret, result, transactionId>>
  /\ UNCHANGED aside

\* acquireLock, stale lock seen: releaseLock() and resolve(true)
AcqStale(p) ==
  /\ pc[p] = "acq_cb"
  /\ existingLock[p] # NoLock
  /\ IsStale(lockTimestamp[p], existingLock[p], LOCK_TIMEOUT)
  /\ lock' = NoLock
  /\ lockAcquired' = [lockAcquired EXCEPT ![p] = TRUE]
  /\ pc' = [pc EXCEPT ![p] = "pn_get"]
  /\ UNCHANGED <<state, flags, formVisible, now, submitted, budget>>
  /\ UNCHANGED <<op, lockTimestamp, existingLock, currentState, updates,
                 newState, ret, result, transactionId>>
  /\ UNCHANGED aside

\* a denied acquisition that discards the lock it saw
AcqDeniedReleasing(p) ==
  /\ pc[p] = "acq_cb"
  /\ existingLock[p] # NoLock
  /\ ~IsStale(lockTimestamp[p], existingLock[p], LOCK_TIMEOUT)
  /\ lock' = NoLock
  /\ lockAcquired' = [lockAcquired EXCEPT ![p] = FALSE]
  /\ Return(p, "RETRY")
  /\ UNCHANGED <<state, flags, formVisible, now, submitted, budget>>
  /\ UNCHANGED <<op, transactionId>>
  /\ UNCHANGED aside

\* acquireLock, live lock seen: resolve(false); processNextTransaction
\* returns RETRY
AcqDenied(p) ==
  /\ pc[p] = "acq_cb"
  /\ existingLock[p] # NoLock
  /\ ~IsStale(lockTimestamp[p], existingLock[p], LOCK_TIMEOUT)
  /\ lockAcquired' = [lockAcquired EXCEPT ![p] = FALSE]
  /\ PN_Return(p, "RETRY")
  /\ UNCHANGED shared
  /\ UNCHANGED <<op, transactionId>>
  /\ UNCHANGED aside

\* ------------------------------------------------- TransactionProcessor
Bump(n) == IF n < MaxSubmitted THEN n + 1 ELSE n

\* a retry check that lets a record with MAX_RETRY_ATTEMPTS attempts through
RetriesExhaustedLate(transaction) ==
  transaction.processingAttempts > MAX_RETRY_ATTEMPTS

RetriesExhausted(transaction) ==
  transaction.processingAttempts >= MAX_RETRY_ATTEMPTS

\* a retry check that drops the exhausted record instead of recording it
ExhaustedUpdatesDropping(cur) ==
  QueueUpd(NoUpdates, Tail(cur.queue))

\* the updateState() argument of the retry check: no status
ExhaustedUpdates(cur) ==
  FailedUpd(QueueUpd(NoUpdates, Tail(cur.queue)),
            Append(cur.failedTransactions, Head(cur.queue)))

\* an empty-queue return that asks the caller to come back
EmptyQueueResultRetry == "RETRY"

\* the value returned when the queue is empty
EmptyQueueResult == "SUCCESS"

\* processNextTransaction: getCurrentState, then the empty-queue return, the
\* retry check, or the SUBMIT_TRANSACTION message
PN_GetState(p) ==
  /\ pc[p] = "pn_get"
  /\ currentState' = [currentState EXCEPT ![p] = state]
  /\ IF state.queue = <<>>
     THEN /\ result' = [result EXCEPT ![p] = EmptyQueueResult]
          /\ pc' = [pc EXCEPT ![p] = "pn_release"]
          /\ UNCHANGED <<updates, ret, submitted, transactionId>>
     ELSE LET transaction == Head(state.queue) IN
          IF RetriesExhausted(transaction)
          THEN /\ result' = [result EXCEPT ![p] = "FAILED"]
               /\ CallUpdate(p, ExhaustedUpdates(state), "pn_release")
               /\ transactionId' = [transactionId EXCEPT ![p] = transaction.id]
               /\ UNCHANGED submitted
          ELSE /\ submitted' = [submitted EXCEPT
                                  ![transaction.id] = Bump(@)]
               /\ transactionId' = [transactionId EXCEPT ![p] = transaction.id]
               /\ pc' = [pc EXCEPT ![p] = "pn_wait"]
               /\ UNCHANGED <<updates, ret, result>>
  /\ UNCHANGED <<state, lock, flags, formVisible, now, budget>>
  /\ UNCHANGED <<op, lockTimestamp, existingLock, lockAcquired, newState>>
  /\ UNCHANGED aside

\* a SUCCESS case that always reports COMPLETED
SuccessUpdatesAlwaysCompleted(cur) ==
  QueueUpd(StatusUpd("COMPLETED"), Tail(cur.queue))

\* case SUCCESS: the queue without its head
SuccessUpdates(cur) ==
  LET rest == Tail(cur.queue)
  IN QueueUpd(StatusUpd(IF Len(rest) > 0 THEN "PROCESSING" ELSE "COMPLETED"),
              rest)

\* a RETRY case that puts the retried record back at the head
RetryUpdatesAtHead(cur, t) ==
  QueueUpd(StatusUpd("WAITING_CONFIRMATION"),
           <<[Head(cur.queue) EXCEPT !.processingAttempts = @ + 1,
                                     !.lastAttemptTimestamp = t]>>
             \o Tail(cur.queue))

\* a RETRY case that re-enqueues the record without counting the attempt
RetryUpdatesUncounted(cur, t) ==
  QueueUpd(StatusUpd("WAITING_CONFIRMATION"),
           Append(Tail(cur.queue),
                  [Head(cur.queue) EXCEPT !.lastAttemptTimestamp = t]))

\* case RETRY: the head, one attempt older, goes to the tail
RetryUpdates(cur, t) ==
  LET transaction == Head(cur.queue)
      rest == Tail(cur.queue)
  IN QueueUpd(StatusUpd("WAITING_CONFIRMATION"),
              Append(rest,
                     [transaction EXCEPT
                        !.processingAttempts = @ + 1,
                        !.lastAttemptTimestamp = t]))

\* a FAILED case that reports ERROR whatever is left in the queue
FailedUpdatesAlwaysError(cur) ==
  FailedUpd(QueueUpd(StatusUpd("ERROR"), Tail(cur.queue)),
            Append(cur.failedTransactions, Head(cur.queue)))

\* a FAILED case that records the head as failed and leaves it in the queue
FailedUpdatesKeepingHead(cur) ==
  FailedUpd(QueueUpd(StatusUpd(IF Len(cur.queue) > 1
                               THEN "PROCESSING" ELSE "ERROR"),
                     cur.queue),
            Append(cur.failedTransactions, Head(cur.queue)))

\* case FAILED: the head moves to failedTransactions
FailedUpdates(cur) ==
  LET transaction == Head(cur.queue)
      rest == Tail(cur.queue)
  IN FailedUpd(QueueUpd(StatusUpd(IF Len(cur.queue) > 1
                                  THEN "PROCESSING" ELSE "ERROR"),
                        rest),
               Append(cur.failedTransactions, transaction))

\* the updateState() argument of each switch case
OutcomeUpdates(cur, res, t) ==
  CASE res = "SUCCESS" -> SuccessUpdates(cur)
    [] res = "RETRY" -> RetryUpdates(cur, t)
    [] res = "FAILED" -> FailedUpdates(cur)

\* submitTransaction resolves; the switch issues its updateState
PN_Outcome(p, res) ==
  /\ pc[p] = "pn_wait"
  /\ result' = [result EXCEPT ![p] = res]
  /\ CallUpdate(p, OutcomeUpdates(currentState[p], res, now), "pn_release")
  /\ UNCHANGED shared
  /\ UNCHANGED <<op, lockTimestamp, existingLock, lockAcquired, currentState,
                 newState, transactionId>>
  /\ UNCHANGED aside

\* a catch block that also discards the record it was working on
CatchUpdatesDroppingHead(cur) ==
  QueueUpd(StatusUpd("ERROR"), Tail(cur.queue))

\* the updateState() argument of the catch block: the status alone
CatchUpdates(cur) ==
  StatusUpd("ERROR")

\* submitTransaction throws before the message is sent (chrome.tabs
\* unavailable): the catch block issues updateState({status: ERROR})
PN_Throw(p) ==
  /\ pc[p] = "pn_get"
  /\ state.queue # <<>>
  /\ ~RetriesExhausted(Head(state.queue))
  /\ currentState' = [currentState EXCEPT ![p] = state]
  /\ result' = [result EXCEPT ![p] = "FAILED"]
  /\ transactionId' = [transactionId EXCEPT ![p] = Head(state.queue).id]
  /\ CallUpdate(p, CatchUpdates(state), "pn_release")
  /\ UNCHANGED shared
  /\ UNCHANGED <<op, lockTimestamp, existingLock, lockAcquired, newState>>
  /\ UNCHANGED aside

\* a return that skips the finally block when the result is SUCCESS
PN_ReleaseUnlessSuccess(p) ==
  /\ pc[p] = "pn_release"
  /\ lock' = IF result[p] = "SUCCESS" THEN lock ELSE NoLock
  /\ Return(p, result[p])
  /\ UNCHANGED <<state, flags, formVisible, now, submitted, budget>>
  /\ UNCHANGED <<op, lockAcquired, transactionId>>
  /\ UNCHANGED aside

\* finally: releaseLock(), then the return
PN_Release(p) ==
  /\ pc[p] = "pn_release"
  /\ lock' = NoLock
  /\ PN_Return(p, result[p])
  /\ UNCHANGED <<state, flags, formVisible, now, submitted, budget>>
  /\ UNCHANGED <<op, lockAcquired, transactionId>>
  /\ UNCHANGED aside

\* the context running processNextTransaction is torn down (page reload,
\* service worker stopped) while it holds the lock: nothing is released
Crash(p) ==
  /\ pc[p] \in {"pn_get", "pn_wait", "upd_get", "upd_set", "pn_release"}
  /\ op[p] = "processNext"
  /\ op' = [op EXCEPT ![p] = "crashed"]
  /\ Return(p, "NONE")
  /\ UNCHANGED shared
  /\ UNCHANGED <<lockAcquired, transactionId>>
  /\ UNCHANGED aside

ProcessNext(p) ==
  \/ AcqGet(p)
  \/ AcqNew(p)
  \/ AcqStale(p)
  \/ AcqDenied(p)
  \/ PN_GetState(p)
  \/ PN_Throw(p)
  \/ \E res \in {"SUCCESS", "RETRY", "FAILED"} : PN_Outcome(p, res)
  \/ UpdGet(p)
  \/ UpdSet(p)
  \/ PN_Release(p)

\* -------------------------------------------------------------- inputs
\* parsed batches: a record and its re-import, and two records of which one
\* repeats a fingerprint of the other batch
Batches == {<<T1, T2>>, <<T2, T3>>}

ClearKeys(f, ks) == [k \in DOMAIN f |-> IF k \in ks THEN NoFlags[k] ELSE f[k]]

\* an operation is invoked; its first storage call is the next step
Start(p, o, l, id) ==
  /\ CanStart(p)
  /\ budget' = budget - 1
  /\ op' = [op EXCEPT ![p] = o]
  /\ pc' = [pc EXCEPT ![p] = l]
  /\ transactionId' = [transactionId EXCEPT ![p] = id]
  /\ result' = [result EXCEPT ![p] = "NONE"]
  /\ lockAcquired' = [lockAcquired EXCEPT ![p] = FALSE]
  /\ UNCHANGED <<state, lock, flags, formVisible, now, submitted>>
  /\ UNCHANGED <<lockTimestamp, existingLock, currentState, updates,
                 newState, ret>>
  /\ UNCHANGED aside

\* ------------------------------- TransactionStateManager.addTransaction
addTransaction(p, transaction) ==
  /\ CanStart(p)
  /\ budget' = budget - 1
  /\ op' = [op EXCEPT ![p] = "addTransaction"]
  /\ transactionId' = [transactionId EXCEPT ![p] = transaction.id]
  /\ lockAcquired' = [lockAcquired EXCEPT ![p] = FALSE]
  /\ IF HasFingerprint(state.queue, transaction)
     THEN /\ Return(p, "FALSE")
     ELSE /\ result' = [result EXCEPT ![p] = "TRUE"]
          /\ currentState' = [currentState EXCEPT ![p] = state]
          /\ CallUpdate(p, QueueUpd(StatusUpd("PROCESSING"),
                                    Append(state.queue, transaction)), "idle")
          /\ UNCHANGED <<lockTimestamp, existingLock, newState>>
  /\ UNCHANGED <<state, lock, flags, formVisible, now, submitted>>
  /\ UNCHANGED aside

\* ------------------------ TransactionStateManager.removeTransactionById
\* a removal that reports IDLE whatever is left in the queue
StatusAfterRemovalAlwaysIdle(status, updatedQueue) == "IDLE"

\* updatedQueue.length > 0 ? state.status : ProcessingStatus.IDLE
StatusAfterRemoval(status, updatedQueue) ==
  IF Len(updatedQueue) > 0 THEN status ELSE "IDLE"

removeTransactionById(p, id) ==
  /\ CanStart(p)
  /\ budget' = budget - 1
  /\ op' = [op EXCEPT ![p] = "removeTransactionById"]
  /\ transactionId' = [transactionId EXCEPT ![p] = id]
  /\ lockAcquired' = [lockAcquired EXCEPT ![p] = FALSE]
  /\ LET updatedQueue == FilterOutId(state.queue, id) IN
       IF Len(state.queue) = Len(updatedQueue)
       THEN Return(p, "FALSE")
       ELSE /\ result' = [result EXCEPT ![p] = "TRUE"]
            /\ currentState' = [currentState EXCEPT ![p] = state]
            /\ CallUpdate(p,
                 QueueUpd(StatusUpd(StatusAfterRemoval(state.status,
                                                       updatedQueue)),
                          updatedQueue), "idle")
            /\ UNCHANGED <<lockTimestamp, existingLock, newState>>
  /\ UNCHANGED <<state, lock, flags, formVisible, now, submitted>>
  /\ UNCHANGED aside

\* --------------------------------- TransactionStateManager.clearState
\* handleClearTransactions: the five page flags are removed first
CL_Flags(p) ==
  /\ Start(p, "CLEAR_TRANSACTIONS", "cl_flags", NoId)

CL_RemoveFlags(p) ==
  /\ pc[p] = "cl_flags"
  /\ flags' = NoFlags
  /\ pc' = [pc EXCEPT ![p] = "cl_state"]
  /\ UNCHANGED <<state, lock, formVisible, now, submitted, budget>>
  /\ UNCHANGED <<op, lockTimestamp, existingLock, lockAcquired, currentState,
                 updates, newState, ret, result, transactionId>>
  /\ UNCHANGED aside

clearState(p) ==
  /\ pc[p] = "cl_state"
  /\ state' = DefaultState
  /\ Return(p, "TRUE")
  /\ UNCHANGED <<lock, flags, formVisible, now, submitted, budget>>
  /\ UNCHANGED <<op, lockAcquired, transactionId>>
  /\ UNCHANGED aside

\* TransactionProcessor.clearTransactions: clearState() and nothing else
clearTransactions(p) ==
  /\ Start(p, "clearTransactions", "cl_state", NoId)
  /\ UNCHANGED aside

\* ------------------------------- TransactionProcessor.queueTransactions
\* ids are kept (every record here has one); the counters are reset
ResetAttempts(ts) ==
  [i \in 1..Len(ts) |->
     [ts[i] EXCEPT !.processingAttempts = 0, !.lastAttemptTimestamp = 0]]

queueTransactions(p, transactions) ==
  /\ CanStart(p)
  /\ budget' = budget - 1
  /\ op' = [op EXCEPT ![p] = "queueTransactions"]
  /\ transactionId' = [transactionId EXCEPT ![p] = NoId]
  /\ lockAcquired' = [lockAcquired EXCEPT ![p] = FALSE]
  /\ result' = [result EXCEPT ![p] = "NONE"]
  /\ currentState' = [currentState EXCEPT ![p] = state]
  /\ CallUpdate(p, QueueUpd(StatusUpd("PROCESSING"),
                            state.queue \o ResetAttempts(transactions)),
                "sp_start")
  /\ UNCHANGED <<state, lock, flags, formVisible, now, submitted>>
  /\ UNCHANGED <<lockTimestamp, existingLock, newState>>
  /\ UNCHANGED aside

\* --------------------------------- TransactionProcessor.startProcessing
SP_Call(p) ==
  /\ Start(p, "startProcessing", "sp_start", NoId)

\* a start that skips the re-entrancy guard
SP_StartUnguarded(p) ==
  /\ pc[p] = "sp_start"
  /\ pc' = [pc EXCEPT ![p] = "sp_loop"]
  /\ UNCHANGED <<lockTimestamp, existingLock, currentState, updates,
                 newState, ret, result>>
  /\ UNCHANGED shared
  /\ UNCHANGED <<op, lockAcquired, transactionId>>
  /\ UNCHANGED aside

\* the re-entrancy guard
SP_Start(p) ==
  /\ pc[p] = "sp_start"
  /\ IF state.status = "PROCESSING"
     THEN /\ Return(p, "NONE")
     ELSE /\ pc' = [pc EXCEPT ![p] = "sp_loop"]
          /\ UNCHANGED <<lockTimestamp, existingLock, currentState, updates,
                         newState, ret, result>>
  /\ UNCHANGED shared
  /\ UNCHANGED <<op, lockAcquired, transactionId>>
  /\ UNCHANGED aside

\* processNext (the closure): stop on an empty queue, else call
\* processNextTransaction; every round after the first counts as an operation
SP_Loop(p) ==
  /\ pc[p] = "sp_loop"
  /\ result[p] # "NONE" => budget > 0
  /\ budget' = IF result[p] # "NONE" THEN budget - 1 ELSE budget
  /\ IF state.queue = <<>>
     THEN /\ CallUpdate(p, StatusUpd("IDLE"), "idle")
     ELSE /\ pc' = [pc EXCEPT ![p] = "sp_call"]
          /\ UNCHANGED <<updates, ret>>
  /\ UNCHANGED <<state, lock, flags, formVisible, now, submitted>>
  /\ UNCHANGED <<op, lockTimestamp, existingLock, lockAcquired, currentState,
                 newState, result, transactionId>>
  /\ UNCHANGED aside

\* ------------------------------------------ background: PROCESS_CSV
\* CSVProcessor.processCSV returns the parsed rows deduplicated
handleCSVProcessing(p, rows) ==
  /\ CanStart(p)
  /\ budget' = budget - 1
  /\ op' = [op EXCEPT ![p] = "PROCESS_CSV"]
  /\ transactionId' = [transactionId EXCEPT ![p] = NoId]
  /\ lockAcquired' = [lockAcquired EXCEPT ![p] = FALSE]
  /\ LET enhancedTransactions == CSVProcessor_deduplicateTransactions(rows)
     IN IF Len(enhancedTransactions) > 0
        THEN /\ result' = [result EXCEPT ![p] = "TRUE"]
             /\ currentState' = [currentState EXCEPT ![p] = state]
             /\ CallUpdate(p,
                  QueueUpd(StatusUpd("PROCESSING"),
                           deduplicateQueue(state.queue
                                            \o enhancedTransactions)),
                  "idle")
             /\ UNCHANGED <<lockTimestamp, existingLock, newState>>
        ELSE Return(p, "FALSE")
  /\ UNCHANGED <<state, lock, flags, formVisible, now, submitted>>
  /\ UNCHANGED aside

\* ------------------------------------------ background: START_IMPORT
handleImportStart(p, transactions, replaceQueue) ==
  /\ CanStart(p)
  /\ budget' = budget - 1
  /\ op' = [op EXCEPT ![p] = "START_IMPORT"]
  /\ transactionId' = [transactionId EXCEPT ![p] = NoId]
  /\ lockAcquired' = [lockAcquired EXCEPT ![p] = FALSE]
  /\ IF Len(transactions) > 0
     THEN /\ result' = [result EXCEPT ![p] = "NONE"]
          /\ currentState' = [currentState EXCEPT ![p] = state]
          /\ CallUpdate(p,
               QueueUpd(StatusUpd("PROCESSING"),
                        deduplicateQueue(IF replaceQueue THEN transactions
                                         ELSE state.queue \o transactions)),
               "dp_get")
          /\ UNCHANGED <<lockTimestamp, existingLock, newState>>
     ELSE IF Len(state.queue) > 0
          THEN /\ result' = [result EXCEPT ![p] = "NONE"]
               /\ currentState' = [currentState EXCEPT ![p] = state]
               /\ CallUpdate(p, StatusUpd("PROCESSING"), "dp_get")
               /\ UNCHANGED <<lockTimestamp, existingLock, newState>>
          ELSE Return(p, "FALSE")
  /\ UNCHANGED <<state, lock, flags, formVisible, now, submitted>>
  /\ UNCHANGED aside

\* ------------------------------- background: PROCESS_NEXT_TRANSACTION
handleProcessNextTransaction(p) ==
  /\ Start(p, "PROCESS_NEXT_TRANSACTION", "dp_get", NoId)

\* background processNextTransaction: the head record goes to a Glacier Tax
\* tab as PROCESS_TRANSACTION, when there is a record and a tab
DP_Get(p, tabFound) ==
  /\ pc[p] = "dp_get"
  /\ IF state.queue = <<>> \/ ~tabFound
     THEN /\ Return(p, "FALSE")
          /\ UNCHANGED transactionId
     ELSE /\ transactionId' = [transactionId EXCEPT ![p] = Head(state.queue).id]
          /\ currentState' = [currentState EXCEPT ![p] = state]
          /\ result' = [result EXCEPT ![p] = "TRUE"]
          /\ pc' = [pc EXCEPT ![p] = "pt_set"]
          /\ UNCHANGED <<lockTimestamp, existingLock, updates, newState, ret>>
  /\ UNCHANGED shared
  /\ UNCHANGED <<op, lockAcquired>>
  /\ UNCHANGED aside

\* --------------------------- content script: PROCESS_TRANSACTION handler
PT_Set(p) ==
  /\ pc[p] = "pt_set"
  /\ flags' = [flags EXCEPT !.currentTransactionId = transactionId[p],
                            !.isProcessing = TRUE]
  /\ pc' = [pc EXCEPT ![p] = IF formVisible THEN "fill" ELSE "add_click"]
  /\ UNCHANGED <<state, lock, formVisible, now, submitted, budget>>
  /\ UNCHANGED <<op, lockTimestamp, existingLock, lockAcquired, currentState,
                 updates, newState, ret, result, transactionId>>
  /\ UNCHANGED aside

\* a click made the page navigate: the content script of the new page runs
\* initialize
PageLoad(p) ==
  /\ pc' = [pc EXCEPT ![p] = "in_get"]
  /\ op' = [op EXCEPT ![p] = "initialize"]
  /\ transactionId' = [transactionId EXCEPT ![p] = NoId]
  /\ result' = [result EXCEPT ![p] = "NONE"]
  /\ currentState' = [currentState EXCEPT ![p] = DefaultState]
  /\ UNCHANGED <<lockTimestamp, existingLock, updates, newState, ret>>
  /\ UNCHANGED aside

\* clickAddTransaction: skipped when already clicked, fails when the button
\* is missing
clickAddTransaction(p, buttonFound) ==
  /\ pc[p] = "add_click"
  /\ IF flags.addTransactionClicked \/ ~buttonFound
     THEN Return(p, result[p])
     ELSE /\ pc' = [pc EXCEPT ![p] = "add_set"]
          /\ UNCHANGED <<lockTimestamp, existingLock, currentState, updates,
                         newState, ret, result>>
  /\ UNCHANGED shared
  /\ UNCHANGED <<op, lockAcquired, transactionId>>
  /\ UNCHANGED aside

\* addTransactionClicked is stored, the button is clicked and the form page
\* loads
handleAddTransactionClick(p) ==
  /\ pc[p] = "add_set"
  /\ flags' = [flags EXCEPT !.addTransactionClicked = TRUE]
  /\ formVisible' = TRUE
  /\ PageLoad(p)
  /\ UNCHANGED <<state, lock, now, submitted, budget>>
  /\ UNCHANGED lockAcquired
  /\ UNCHANGED aside

\* fillAndSubmitForm up to the marker: waitForFormElements may time out
\* (catch block), else the pending marker is stored
FS_Mark(p, formFound) ==
  /\ pc[p] = "fill"
  /\ IF formFound
     THEN /\ flags' = [flags EXCEPT !.pendingCompletion = TRUE,
                                    !.pendingTransactionId = transactionId[p]]
          /\ pc' = [pc EXCEPT ![p] = "submit_click"]
          /\ UNCHANGED <<lockTimestamp, existingLock, currentState, updates,
                         newState, ret, result>>
     ELSE /\ flags' = ClearKeys(flags, {"addTransactionClicked",
                                        "pendingCompletion",
                                        "pendingTransactionId"})
          /\ Return(p, "FALSE")
  /\ UNCHANGED <<state, lock, formVisible, now, submitted, budget>>
  /\ UNCHANGED <<op, lockAcquired, transactionId>>
  /\ UNCHANGED aside

\* submitButton.click(): the form is posted and the list page loads
FS_Click(p) ==
  /\ pc[p] = "submit_click"
  /\ formVisible' = FALSE
  /\ PageLoad(p)
  /\ UNCHANGED <<state, lock, flags, now, submitted, budget>>
  /\ UNCHANGED lockAcquired
  /\ UNCHANGED aside

\* --------------------------------- background: TRANSACTION_PROCESSED
handleTransactionProcessed(p, id, success) ==
  /\ Start(p, "TRANSACTION_PROCESSED", IF success THEN "tp_get" ELSE "tp_fail",
           id)

\* success: the record is looked up and filtered out of the queue
TP_Get(p) ==
  /\ pc[p] = "tp_get"
  /\ currentState' = [currentState EXCEPT ![p] = state]
  /\ IF HasId(state.queue, transactionId[p])
     THEN LET updatedQueue == FilterOutId(state.queue, transactionId[p]) IN
          /\ result' = [result EXCEPT ![p] = "TRUE"]
          /\ CallUpdate(p,
               QueueUpd(StatusUpd(IF Len(updatedQueue) > 0 THEN "PROCESSING"
                                  ELSE "COMPLETED"), updatedQueue),
               "tp_clear")
     ELSE /\ result' = [result EXCEPT ![p] = "FALSE"]
          /\ pc' = [pc EXCEPT ![p] = "tp_clear"]
          /\ UNCHANGED <<updates, ret>>
  /\ UNCHANGED shared
  /\ UNCHANGED <<op, lockTimestamp, existingLock, lockAcquired, newState,
                 transactionId>>
  /\ UNCHANGED aside

\* sendResponse: the handler is done; a content script that sent the message
\* goes on in its callback
AfterProcessed(p) ==
  IF op[p] = "TRANSACTION_PROCESSED"
  THEN Return(p, result[p])
  ELSE /\ pc' = [pc EXCEPT ![p] = IF op[p] = "initialize" THEN "in_reset"
                                  ELSE "dp_get"]
       /\ currentState' = [currentState EXCEPT ![p] = DefaultState]
       /\ UNCHANGED <<lockTimestamp, existingLock, updates, newState, ret,
                      result>>

TP_Clear(p) ==
  /\ pc[p] = "tp_clear"
  /\ flags' = ClearKeys(flags, {"currentTransactionId", "pendingCompletion",
                                "pendingTransactionId"})
  /\ AfterProcessed(p)
  /\ UNCHANGED <<state, lock, formVisible, now, submitted, budget>>
  /\ UNCHANGED <<op, lockAcquired, transactionId>>
  /\ UNCHANGED aside

\* failure: only the pending marker is removed
TP_Fail(p) ==
  /\ pc[p] = "tp_fail"
  /\ flags' = ClearKeys(flags, {"pendingCompletion", "pendingTransactionId"})
  /\ Return(p, "FALSE")
  /\ UNCHANGED <<state, lock, formVisible, now, submitted, budget>>
  /\ UNCHANGED <<op, lockAcquired, transactionId>>
  /\ UNCHANGED aside

\* ------------------------------------------ content script: initialize
\* the content script is loaded into a page
IN_Load(p) ==
  /\ Start(p, "initialize", "in_get", NoId)

\* the pending marker decides: report the record processed, or look at the
\* page state
IN_Get(p) ==
  /\ pc[p] = "in_get"
  /\ IF flags.pendingCompletion /\ flags.pendingTransactionId # NoId
     THEN /\ transactionId' = [transactionId EXCEPT
                                 ![p] = flags.pendingTransactionId]
          /\ pc' = [pc EXCEPT ![p] = "tp_get"]
          /\ UNCHANGED op
     ELSE /\ op' = [op EXCEPT ![p] = "checkCurrentPageState"]
          /\ pc' = [pc EXCEPT ![p] = "cps_get"]
          /\ UNCHANGED transactionId
  /\ UNCHANGED shared
  /\ UNCHANGED <<lockTimestamp, existingLock, lockAcquired, currentState,
                 updates, newState, ret, result>>
  /\ UNCHANGED aside

\* after the response: the marker is reset, then PROCESS_NEXT_TRANSACTION
IN_Reset(p) ==
  /\ pc[p] = "in_reset"
  /\ flags' = [flags EXCEPT !.pendingCompletion = FALSE,
                            !.pendingTransactionId = NoId,
                            !.addTransactionClicked = FALSE]
  /\ pc' = [pc EXCEPT ![p] = "dp_get"]
  /\ UNCHANGED <<state, lock, formVisible, now, submitted, budget>>
  /\ UNCHANGED <<op, lockTimestamp, existingLock, lockAcquired, currentState,
                 updates, newState, ret, result, transactionId>>
  /\ UNCHANGED aside

\* checkCurrentPageState: the storage.get callback
CPS_Get(p) ==
  /\ pc[p] = "cps_get"
  /\ IF flags.isProcessing
     THEN IF formVisible
          THEN IF flags.currentTransactionId # NoId
               THEN /\ transactionId' = [transactionId EXCEPT
                                           ![p] = flags.currentTransactionId]
                    /\ pc' = [pc EXCEPT ![p] = "gt_get"]
                    /\ UNCHANGED <<lockTimestamp, existingLock, currentState,
                                   updates, newState, ret, result>>
               ELSE /\ Return(p, "NONE")
                    /\ UNCHANGED transactionId
          ELSE IF flags.addTransactionClicked
               THEN /\ Return(p, "NONE")
                    /\ UNCHANGED transactionId
               ELSE /\ transactionId' = [transactionId EXCEPT
                                           ![p] = flags.currentTransactionId]
                    /\ pc' = [pc EXCEPT ![p] = "tp_get"]
                    /\ UNCHANGED <<lockTimestamp, existingLock, currentState,
                                   updates, newState, ret, result>>
     ELSE /\ pc' = [pc EXCEPT ![p] = "gps_get"]
          /\ UNCHANGED <<lockTimestamp, existingLock, currentState, updates,
                         newState, ret, result, transactionId>>
  /\ UNCHANGED shared
  /\ UNCHANGED <<op, lockAcquired>>
  /\ UNCHANGED aside

\* GET_TRANSACTION: handleGetTransaction looks the record up
GT_Get(p) ==
  /\ pc[p] = "gt_get"
  /\ pc' = [pc EXCEPT ![p] = IF HasId(state.queue, transactionId[p])
                             THEN "fill" ELSE "gt_reset"]
  /\ UNCHANGED shared
  /\ UNCHANGED <<op, lockTimestamp, existingLock, lockAcquired, currentState,
                 updates, newState, ret, result, transactionId>>
  /\ UNCHANGED aside

\* record not found: the processing flags are reset
GT_Reset(p) ==
  /\ pc[p] = "gt_reset"
  /\ flags' = [flags EXCEPT !.isProcessing = FALSE,
                            !.currentTransactionId = NoId,
                            !.addTransactionClicked = FALSE]
  /\ Return(p, "FALSE")
  /\ UNCHANGED <<state, lock, formVisible, now, submitted, budget>>
  /\ UNCHANGED <<op, lockAcquired, transactionId>>
  /\ UNCHANGED aside

\* GET_PROCESSING_STATUS: handleGetProcessingStatus reads the queue length
GPS_Get(p) ==
  /\ pc[p] = "gps_get"
  /\ IF Len(state.queue) > 0
     THEN /\ pc' = [pc EXCEPT ![p] = "gps_set"]
          /\ UNCHANGED <<lockTimestamp, existingLock, currentState, updates,
                         newState, ret, result>>
     ELSE Return(p, "NONE")
  /\ UNCHANGED shared
  /\ UNCHANGED <<op, lockAcquired, transactionId>>
  /\ UNCHANGED aside

\* isProcessing is stored, then PROCESS_NEXT_TRANSACTION
GPS_Set(p) ==
  /\ pc[p] = "gps_set"
  /\ flags' = [flags EXCEPT !.isProcessing = TRUE]
  /\ pc' = [pc EXCEPT ![p] = "dp_get"]
  /\ UNCHANGED <<state, lock, formVisible, now, submitted, budget>>
  /\ UNCHANGED <<op, lockTimestamp, existingLock, lockAcquired, currentState,
                 updates, newState, ret, result, transactionId>>
  /\ UNCHANGED aside

\* ------------------------------------- background: runtime.onStartup
\* the browser starts again: whatever was in flight is gone, the storage is
\* as it was left
ST_Call(p) ==
  /\ p = 1
  /\ budget > 0
  /\ budget' = budget - 1
  /\ pc' = [q \in Proc |-> IF q = p THEN "st_get" ELSE "idle"]
  /\ op' = [op EXCEPT ![p] = "onStartup"]
  /\ lockTimestamp' = [q \in Proc |-> NoLock]
  /\ existingLock' = [q \in Proc |-> NoLock]
  /\ lockAcquired' = [lockAcquired EXCEPT ![p] = FALSE]
  /\ currentState' = [q \in Proc |-> DefaultState]
  /\ updates' = [q \in Proc |-> NoUpdates]
  /\ newState' = [q \in Proc |-> DefaultState]
  /\ ret' = [q \in Proc |-> "idle"]
  /\ result' = [result EXCEPT ![p] = "NONE"]
  /\ transactionId' = [transactionId EXCEPT ![p] = NoId]
  /\ UNCHANGED <<state, lock, flags, formVisible, now, submitted>>
  /\ UNCHANGED aside

ST_Get(p) ==
  /\ pc[p] = "st_get"
  /\ IF flags.pendingCompletion /\ flags.pendingTransactionId # NoId
     THEN /\ transactionId' = [transactionId EXCEPT
                                 ![p] = flags.pendingTransactionId]
          /\ pc' = [pc EXCEPT ![p] = "st_state"]
          /\ UNCHANGED <<lockTimestamp, existingLock, currentState, updates,
                         newState, ret, result>>
     ELSE IF flags.isProcessing \/ flags.currentTransactionId # NoId
          THEN /\ pc' = [pc EXCEPT ![p] = "st_stale"]
               /\ UNCHANGED <<lockTimestamp, existingLock, currentState,
                              updates, newState, ret, result, transactionId>>
          ELSE /\ Return(p, "NONE")
               /\ UNCHANGED transactionId
  /\ UNCHANGED shared
  /\ UNCHANGED <<op, lockAcquired>>
  /\ UNCHANGED aside

\* the pending record is assumed completed: filtered out of the queue
ST_State(p) ==
  /\ pc[p] = "st_state"
  /\ currentState' = [currentState EXCEPT ![p] = state]
  /\ LET updatedQueue == FilterOutId(state.queue, transactionId[p]) IN
       CallUpdate(p, QueueUpd(StatusUpd(IF Len(updatedQueue) > 0
                                        THEN "PROCESSING" ELSE "COMPLETED"),
                              updatedQueue), "st_clear")
  /\ UNCHANGED shared
  /\ UNCHANGED <<op, lockTimestamp, existingLock, lockAcquired, newState,
                 result, transactionId>>
  /\ UNCHANGED aside

ST_Clear(p) ==
  /\ pc[p] = "st_clear"
  /\ flags' = ClearKeys(flags, {"pendingCompletion", "pendingTransactionId",
                                "isProcessing", "currentTransactionId"})
  /\ Return(p, "TRUE")
  /\ UNCHANGED <<state, lock, formVisible, now, submitted, budget>>
  /\ UNCHANGED <<op, lockAcquired, transactionId>>
  /\ UNCHANGED aside

\* no pending record: leftover processing flags are removed
ST_Stale(p) ==
  /\ pc[p] = "st_stale"
  /\ flags' = ClearKeys(flags, {"isProcessing", "currentTransactionId",
                                "addTransactionClicked"})
  /\ Return(p, "NONE")
  /\ UNCHANGED <<state, lock, formVisible, now, submitted, budget>>
  /\ UNCHANGED <<op, lockAcquired, transactionId>>
  /\ UNCHANGED aside

\* ------------------------------------------------- the whole system
\* all operations, within one lock-timeout window (the clock stands still)
Processor(p) ==
  \/ AcqGet(p)
  \/ AcqNew(p)
  \/ AcqDenied(p)
  \/ PN_GetState(p)
  \/ PN_Throw(p)
  \/ \E res \in {"SUCCESS", "RETRY", "FAILED"} : PN_Outcome(p, res)
  \/ UpdGet(p)
  \/ UpdSet(p)
  \/ PN_Release(p)
  \/ \E b \in Batches : queueTransactions(p, b)
  \/ SP_Call(p)
  \/ SP_Start(p)
  \/ SP_Loop(p)

StateManager(p) ==
  \/ \E t \in Universe : addTransaction(p, t)
  \/ \E id \in Ids : removeTransactionById(p, id)
  \/ CL_Flags(p)
  \/ CL_RemoveFlags(p)
  \/ clearState(p)

Background(p) ==
  \/ \E b \in Batches : handleCSVProcessing(p, b)
  \/ \E b \in Batches \cup {<<>>}, r \in BOOLEAN : handleImportStart(p, b, r)
  \/ handleProcessNextTransaction(p)
  \/ \E tabFound \in BOOLEAN : DP_Get(p, tabFound)
  \/ \E id \in Ids, success \in BOOLEAN :
       handleTransactionProcessed(p, id, success)
  \/ TP_Get(p)
  \/ TP_Clear(p)
  \/ TP_Fail(p)
  \/ ST_Call(p)
  \/ ST_Get(p)
  \/ ST_State(p)
  \/ ST_Clear(p)
  \/ ST_Stale(p)

ContentScript(p) ==
  \/ PT_Set(p)
  \/ \E buttonFound \in BOOLEAN : clickAddTransaction(p, buttonFound)
  \/ handleAddTransactionClick(p)
  \/ \E formFound \in BOOLEAN : FS_Mark(p, formFound)
  \/ FS_Click(p)
  \/ IN_Load(p)
  \/ IN_Get(p)
  \/ IN_Reset(p)
  \/ CPS_Get(p)
  \/ GT_Get(p)
  \/ GT_Reset(p)
  \/ GPS_Get(p)
  \/ GPS_Set(p)

Next ==
  \/ \E p \in Proc : Processor(p)
  \/ \E p \in Proc : StateManager(p)
  \/ \E p \in Proc : Background(p)
  \/ \E p \in Proc : ContentScript(p)

Spec == Init /\ [][Next]_vars

\* ------------------- the coordinator and its pages (SpecCoordinator)
\* the message handlers of the background script, the startup listener and
\* the content script
NextCoordinator ==
  \/ \E p \in Proc : Background(p)
  \/ \E p \in Proc : ContentScript(p)
  \/ \E p \in Proc : CL_Flags(p)
  \/ \E p \in Proc : CL_RemoveFlags(p)
  \/ \E p \in Proc : clearState(p)
  \/ \E p \in Proc : UpdGet(p)
  \/ \E p \in Proc : UpdSet(p)

SpecCoordinator == Init /\ [][NextCoordinator]_vars

\* --------- the coordinator, its pages and clearTransactions (SpecClear)
NextClear ==
  \/ NextCoordinator
  \/ \E p \in Proc : clearTransactions(p)

SpecClear == Init /\ [][NextClear]_vars

\* ------------------------------------------ lock specification (SpecLock)
\* two contexts call processNextTransaction on a queue that an import left
InitQueues ==
  {<<>>, <<T1>>, <<T1, T3>>}

InitLock ==
  /\ \E q \in InitQueues :
       state = [status |-> IF q = <<>> THEN "IDLE" ELSE "PROCESSING",
                queue |-> q, failedTransactions |-> <<>>]
  /\ lock = NoLock
  /\ flags = NoFlags
  /\ formVisible = FALSE
  /\ now = TickMs
  /\ submitted = [i \in Ids |-> 0]
  /\ budget = MaxCalls
  /\ InitLocals

NextLock ==
  \/ Tick
  \/ \E p \in Proc : ProcessNext(p)
  \/ \E p \in Proc : Crash(p)

SpecLock == InitLock /\ [][NextLock]_vars

\* -------------------------------------- one processing context (SpecSingle)
InitSingle ==
  /\ \E q \in InitQueues :
       state = [status |-> IF q = <<>> THEN "IDLE" ELSE "PROCESSING",
                queue |-> q, failedTransactions |-> <<>>]
  /\ lock = NoLock
  /\ flags = NoFlags
  /\ formVisible = FALSE
  /\ now = TickMs
  /\ submitted = [i \in Ids |-> 0]
  /\ budget = MaxCallsSingle
  /\ InitLocals

NextSingle ==
  \/ Tick
  \/ ProcessNext(1)
  \/ Crash(1)

SpecSingle == InitSingle /\ [][NextSingle]_vars

\* ------------ one context, a page that always answers {retry: true}
NextRetry ==
  \/ Tick
  \/ AcqGet(1)
  \/ AcqNew(1)
  \/ PN_GetState(1)
  \/ PN_Outcome(1, "RETRY")
  \/ UpdGet(1)
  \/ UpdSet(1)
  \/ PN_Release(1)

SpecRetry == InitSingle /\ [][NextRetry]_vars

\* ------- one context running the TransactionProcessor (SpecProcessor)
\* queueTransactions, startProcessing and direct processNextTransaction
\* calls, one after the other, from an empty store
InitProcessor ==
  /\ state = DefaultState
  /\ lock = NoLock
  /\ flags = NoFlags
  /\ formVisible = FALSE
  /\ now = TickMs
  /\ submitted = [i \in Ids |-> 0]
  /\ budget = MaxCallsSingle
  /\ InitLocals

\* the steps of an operation that is under way
RunProcessor ==
  \/ SP_Start(1)
  \/ SP_Loop(1)
  \/ AcqGet(1) /\ pc[1] = "sp_call"
  \/ AcqNew(1)
  \/ PN_GetState(1)
  \/ \E res \in {"SUCCESS", "RETRY", "FAILED"} : PN_Outcome(1, res)
  \/ UpdGet(1)
  \/ UpdSet(1)
  \/ PN_Release(1)

NextProcessor ==
  \/ \E b \in Batches : queueTransactions(1, b)
  \/ SP_Call(1)
  \/ SP_Start(1)
  \/ SP_Loop(1)
  \/ AcqGet(1)
  \/ AcqNew(1)
  \/ PN_GetState(1)
  \/ PN_Throw(1)
  \/ \E res \in {"SUCCESS", "RETRY", "FAILED"} : PN_Outcome(1, res)
  \/ UpdGet(1)
  \/ UpdSet(1)
  \/ PN_Release(1)

SpecProcessor == InitProcessor /\ [][NextProcessor]_vars

\* every storage callback runs and every submission resolves
FairSpecProcessor == SpecProcessor /\ WF_vars(RunProcessor)

\* ----------------- the two deduplicateTransactions copies (SpecDedupe)
\* parsed rows: amounts in thousandths around a cent boundary
Descriptions == {"AAPL", "TSLA"}
SalesPrices == {100000, 100004, 100006}
CostBases == {90000, 90004}
Rows == [description : Descriptions, salesPrice : SalesPrices,
         costBasis : CostBases]

\* the records of a list: each with an id of its own and its own counter
Records(rows) ==
  [i \in 1..Len(rows) |->
     [Txn(i, rows[i].description, rows[i].salesPrice) EXCEPT
        !.costBasis = rows[i].costBasis,
        !.processingAttempts = i - 1]]

RecordLists == UNION {[1..n -> Rows] : n \in 0..MaxRecords}

Implementations == {"TransactionStateManager", "CSVProcessor"}

Deduplicate(implementation, ts) ==
  IF implementation = "CSVProcessor"
  THEN CSVProcessor_deduplicateTransactions(ts)
  ELSE deduplicateTransactions(ts)

InitDedupe ==
  /\ state = DefaultState
  /\ lock = NoLock
  /\ flags = NoFlags
  /\ formVisible = FALSE
  /\ now = TickMs
  /\ submitted = [i \in Ids |-> 0]
  /\ budget = 0
  /\ InitProcs
  /\ csv = NoCsv
  /\ importer = NoImporter
  /\ \E rows \in RecordLists :
       dedupe = [NoDedupe EXCEPT !.transactions = Records(rows)]

\* deduplicateTransactions(transactions) of one of the two copies
DedupeCall(implementation) ==
  /\ dedupe.calls = 0
  /\ dedupe' = [dedupe EXCEPT
                  !.implementation = implementation,
                  !.deduplicated = Deduplicate(implementation,
                                               dedupe.transactions),
                  !.calls = 1]
  /\ UNCHANGED <<shared, locals, csv, importer>>

\* the same copy applied to its own result
DedupeAgain ==
  /\ dedupe.calls = 1
  /\ dedupe' = [dedupe EXCEPT
                  !.deduplicated = Deduplicate(dedupe.implementation,
                                               dedupe.deduplicated),
                  !.calls = 2]
  /\ UNCHANGED <<shared, locals, csv, importer>>

NextDedupe ==
  \/ \E implementation \in Implementations : DedupeCall(implementation)
  \/ DedupeAgain

SpecDedupe == InitDedupe /\ [][NextDedupe]_vars

\* ---- one context importing, removing and retrying records (SpecImport)
\* a record handed to queueTransactions with a counter from an earlier run
Requeued == <<[T3 EXCEPT !.processingAttempts = 2,
                         !.lastAttemptTimestamp = TickMs]>>

QueueInputs == Batches \cup {Requeued}

InitImport ==
  /\ state = DefaultState
  /\ lock = NoLock
  /\ flags = NoFlags
  /\ formVisible = FALSE
  /\ now = TickMs
  /\ submitted = [i \in Ids |-> 0]
  /\ budget = MaxImports
  /\ InitLocals

NextImport ==
  \/ \E b \in QueueInputs : queueTransactions(1, b)
  \/ SP_Start(1)
  \/ \E rows \in Batches : handleCSVProcessing(1, rows)
  \/ \E t \in Universe : addTransaction(1, t)
  \/ \E id \in Ids : removeTransactionById(1, id)
  \/ UpdGet(1)
  \/ UpdSet(1)
  \/ AcqGet(1)
  \/ AcqNew(1)
  \/ PN_GetState(1)
  \/ PN_Outcome(1, "RETRY")
  \/ PN_Release(1)

SpecImport == InitImport /\ [][NextImport]_vars

\* ------- processing, imports and clearing side by side (SpecRace)
\* a persisted queue; processNextTransaction, the imports, the clearing
\* operations and the TRANSACTION_PROCESSED handler run as they are invoked,
\* two at a time
NextRace ==
  \/ \E p \in Proc : AcqGet(p)
  \/ \E p \in Proc : AcqNew(p)
  \/ \E p \in Proc : AcqDenied(p)
  \/ \E p \in Proc : PN_GetState(p)
  \/ \E p \in Proc : PN_Throw(p)
  \/ \E p \in Proc, res \in {"SUCCESS", "RETRY", "FAILED"} : PN_Outcome(p, res)
  \/ \E p \in Proc : UpdGet(p)
  \/ \E p \in Proc : UpdSet(p)
  \/ \E p \in Proc : PN_Release(p)
  \/ \E p \in Proc, b \in Batches : queueTransactions(p, b)
  \/ \E p \in Proc : SP_Start(p)
  \/ \E p \in Proc : SP_Loop(p)
  \/ \E p \in Proc, b \in Batches : handleCSVProcessing(p, b)
  \/ \E p \in Proc, t \in Universe : addTransaction(p, t)
  \/ \E p \in Proc : CL_Flags(p)
  \/ \E p \in Proc : CL_RemoveFlags(p)
  \/ \E p \in Proc : clearState(p)
  \/ \E p \in Proc : clearTransactions(p)
  \/ \E p \in Proc, id \in Ids, success \in BOOLEAN :
       handleTransactionProcessed(p, id, success)
  \/ \E p \in Proc : TP_Get(p)
  \/ \E p \in Proc : TP_Clear(p)
  \/ \E p \in Proc : TP_Fail(p)

SpecRace == InitLock /\ [][NextRace]_vars

\* ================================================== CSVProcessor helpers
\* A string is the sequence of its characters.
Digit == {"0", "1", "2", "3", "4", "5", "6", "7", "8", "9"}

\* String.prototype.toUpperCase
toUpperCase(s) ==
  LET LowerCase == <<"a", "b", "c", "d", "e", "f", "g", "h", "i", "j", "k",
                     "l", "m", "n", "o", "p", "q", "r", "s", "t", "u", "v",
                     "w", "x", "y", "z">>
      UpperCase == <<"A", "B", "C", "D", "E", "F", "G", "H", "I", "J", "K",
                     "L", "M", "N", "O", "P", "Q", "R", "S", "T", "U", "V",
                     "W", "X", "Y", "Z">>
  IN [i \in 1..Len(s) |->
        IF \E k \in 1..26 : LowerCase[k] = s[i]
        THEN UpperCase[CHOOSE k \in 1..26 : LowerCase[k] = s[i]]
        ELSE s[i]]

\* String.prototype.includes
includes(s, searchString) ==
  \E i \in 0..(Len(s) - Len(searchString)) :
    SubSeq(s, i + 1, i + Len(searchString)) = searchString

\* String.prototype.endsWith
endsWith(s, searchString) ==
  /\ Len(s) >= Len(searchString)
  /\ SubSeq(s, Len(s) - Len(searchString) + 1, Len(s)) = searchString

\* /\d+C$/.test(s)
DigitsThenC(s) ==
  /\ Len(s) >= 2
  /\ s[Len(s)] = "C"
  /\ s[Len(s) - 1] \in Digit

cryptoKeywords ==
  {<<"B", "I", "T", "C", "O", "I", "N">>,
   <<"B", "T", "C">>,
   <<"E", "T", "H", "E", "R", "E", "U", "M">>,
   <<"E", "T", "H">>,
   <<"L", "I", "T", "E", "C", "O", "I", "N">>,
   <<"L", "T", "C">>,
   <<"D", "O", "G", "E", "C", "O", "I", "N">>,
   <<"D", "O", "G", "E">>,
   <<"C", "O", "M", "P", "O", "U", "N", "D">>,
   <<"C", "H", "A", "I", "N", "L", "I", "N", "K">>,
   <<"C", "R", "Y", "P", "T", "O">>,
   <<"C", "O", "I", "N">>,
   <<"U", "S", "D", "C">>,
   <<"U", "S", "D", "T">>,
   <<"X", "R", "P">>,
   <<"S", "O", "L">>,
   <<"S", "O", "L", "A", "N", "A">>,
   <<"B", "I", "N", "A", "N", "C", "E">>,
   <<"B", "N", "B">>,
   <<"R", "I", "P", "P", "L", "E">>,
   <<"S", "T", "E", "L", "L", "A", "R">>,
   <<"X", "L", "M">>,
   <<"A", "D", "A">>,
   <<"C", "A", "R", "D", "A", "N", "O">>,
   <<"D", "O", "T">>,
   <<"P", "O", "L", "K", "A", "D", "O", "T">>,
   <<"S", "H", "I", "B">>,
   <<"M", "A", "T", "I", "C">>,
   <<"P", "O", "L", "Y", "G", "O", "N">>}

\* CSVProcessor.determineTransactionType: the option and keyword tests read
\* the upper-cased description, the suffix test the description as given
determineTransactionType(description) ==
  IF description = <<>> THEN "OTHER"
  ELSE LET descriptionUpper == toUpperCase(description) IN
    IF \/ includes(descriptionUpper, <<" ", "C", "A", "L", "L", " ">>)
       \/ includes(descriptionUpper, <<" ", "P", "U", "T", " ">>)
    THEN "OPTION"
    ELSE IF \E keyword \in cryptoKeywords : includes(descriptionUpper, keyword)
    THEN "CRYPTO"
    ELSE IF endsWith(description, <<"C">>) \/ DigitsThenC(description)
    THEN "CRYPTO"
    ELSE "STOCK"

\* --------------------------------------- determineTransactionType alone
\* the DESCRIPTION column of a row: up to MaxPieces pieces in a row
RECURSIVE Concat(_)
Concat(pieces) ==
  IF pieces = <<>> THEN <<>> ELSE Head(pieces) \o Concat(Tail(pieces))

DescriptionTexts ==
  LET DescriptionPieces ==
        {<<" ", "C", "A", "L", "L", " ">>,
         <<" ", "p", "u", "t", " ">>,
         <<"C", "A", "L", "L">>,
         <<"B", "T", "C">>,
         <<"e", "t", "h">>,
         <<"I", "N", "C">>,
         <<"T", "S", "L", "A">>,
         <<"7">>,
         <<"C">>,
         <<"c">>,
         <<" ">>}
  IN {Concat(pieces) :
        pieces \in UNION {[1..n -> DescriptionPieces] : n \in 0..MaxPieces}}

InitClassify ==
  /\ state = DefaultState
  /\ lock = NoLock
  /\ flags = NoFlags
  /\ formVisible = FALSE
  /\ now = TickMs
  /\ submitted = [i \in Ids |-> 0]
  /\ budget = 0
  /\ InitProcs
  /\ dedupe = NoDedupe
  /\ importer = NoImporter
  /\ \E description \in DescriptionTexts :
       csv = [NoCsv EXCEPT !.input = description]

\* transactionType: this.determineTransactionType(description)
Classify ==
  /\ csv.fn = "none"
  /\ csv' = [csv EXCEPT !.fn = "determineTransactionType",
                        !.output = determineTransactionType(csv.input)]
  /\ UNCHANGED <<shared, locals, dedupe, importer>>

SpecClassify == InitClassify /\ [][Classify]_vars

\* ------------------------------------------------------ formatSaleDate
DigitChars == <<"0", "1", "2", "3", "4", "5", "6", "7", "8", "9">>

\* /^\d+$/ on a string that may be empty
IsDigits(s) == \A i \in 1..Len(s) : s[i] \in Digit

\* the number a string of digits denotes
RECURSIVE ToNat(_)
ToNat(s) ==
  IF s = <<>> THEN 0
  ELSE ToNat(SubSeq(s, 1, Len(s) - 1)) * 10
         + (CHOOSE k \in 1..10 : DigitChars[k] = s[Len(s)]) - 1

\* a number in decimal, zero-padded to a width
ToDigits(n, width) ==
  [i \in 1..width |-> DigitChars[((n \div (10 ^ (width - i))) % 10) + 1]]

\* String.prototype.trim
RECURSIVE trim(_)
trim(s) ==
  IF s = <<>> THEN s
  ELSE IF Head(s) = " " THEN trim(Tail(s))
  ELSE IF s[Len(s)] = " " THEN trim(SubSeq(s, 1, Len(s) - 1))
  ELSE s

\* dateStr.split('/') of a string with two slashes, <<>> for any other
SlashParts(s) ==
  LET at == {i \in 1..Len(s) : s[i] = "/"} IN
    IF Cardinality(at) # 2 THEN <<>>
    ELSE LET i == CHOOSE k \in at : \A l \in at : k <= l
             j == CHOOSE k \in at : \A l \in at : k >= l
         IN <<SubSeq(s, 1, i - 1), SubSeq(s, i + 1, j - 1),
              SubSeq(s, j + 1, Len(s))>>

\* /^\d{8}$/
IsYYYYMMDD(s) == Len(s) = 8 /\ IsDigits(s)

\* /^\d{1,2}\/\d{1,2}\/\d+$/
IsSlashDate(s) ==
  LET parts == SlashParts(s) IN
    /\ parts # <<>>
    /\ Len(parts[1]) \in 1..2 /\ IsDigits(parts[1])
    /\ Len(parts[2]) \in 1..2 /\ IsDigits(parts[2])
    /\ Len(parts[3]) >= 1 /\ IsDigits(parts[3])

\* /^\d{1,2}\/\d{1,2}\/\d{4}$/
IsMMDDYYYY(s) == IsSlashDate(s) /\ Len(SlashParts(s)[3]) = 4

\* the date-only form of the ECMAScript date-time string format
IsISODate(s) ==
  /\ Len(s) = 10
  /\ s[5] = "-" /\ s[8] = "-"
  /\ IsDigits(SubSeq(s, 1, 4) \o SubSeq(s, 6, 7) \o SubSeq(s, 9, 10))
  /\ ToNat(SubSeq(s, 6, 7)) \in 1..12
  /\ ToNat(SubSeq(s, 9, 10)) \in 1..28

InvalidDate == [valid |-> FALSE, year |-> 0, month |-> 0, day |-> 0]

\* new Date(dateStr), the time zone being UTC: the date-only ISO form is the
\* date it names; every other string is left to the engine, which reads
\* month/day/year with a year of any length (two digits are a year of the
\* current or the last century, none is past 275760) or gives an Invalid
\* Date, and for the rest
\* gives an Invalid Date or some date of its own heuristics
DateParse(dateStr) ==
  IF IsISODate(dateStr)
  THEN {[valid |-> TRUE, year |-> ToNat(SubSeq(dateStr, 1, 4)),
         month |-> ToNat(SubSeq(dateStr, 6, 7)),
         day |-> ToNat(SubSeq(dateStr, 9, 10))]}
  ELSE IF IsSlashDate(dateStr)
  THEN LET parts == SlashParts(dateStr)
           n == ToNat(parts[3])
           year == IF n <= 49 THEN n + 2000
                   ELSE IF n <= 99 THEN n + 1900 ELSE n
       IN IF /\ ToNat(parts[1]) \in 1..12
             /\ ToNat(parts[2]) \in 1..28
             /\ year <= 275760
          THEN {InvalidDate,
                [valid |-> TRUE, year |-> year, month |-> ToNat(parts[1]),
                 day |-> ToNat(parts[2])]}
          ELSE {InvalidDate}
  ELSE {InvalidDate, [valid |-> TRUE, year |-> 2001, month |-> 1, day |-> 1]}

\* parsedDate.toISOString().split('T')[0]: years past 9999 are written with
\* a sign and six digits
toISODate(date) ==
  (IF date.year <= 9999 THEN ToDigits(date.year, 4)
   ELSE <<"+">> \o ToDigits(date.year, 6))
    \o <<"-">> \o ToDigits(date.month, 2) \o <<"-">> \o ToDigits(date.day, 2)

\* new Date().toISOString().split('T')[0]
CurrentDate == <<"2", "0", "2", "6", "-", "1", "1", "-", "0", "2">>

\* a row without the column
Null == <<"null">>

\* CSVProcessor.formatSaleDate; parsedDate is what new Date(dateStr) gave
formatSaleDate(dateString, parsedDate) ==
  IF dateString = Null THEN CurrentDate
  ELSE LET dateStr == trim(dateString) IN
    IF dateStr = <<>> THEN CurrentDate
    ELSE IF IsYYYYMMDD(dateStr)
    THEN SubSeq(dateStr, 1, 4) \o <<"-">> \o SubSeq(dateStr, 5, 6)
           \o <<"-">> \o SubSeq(dateStr, 7, 8)
    ELSE IF IsMMDDYYYY(dateStr)
    THEN LET parts == SlashParts(dateStr)
             padStart2(part) == IF Len(part) >= 2 THEN part
                                ELSE <<"0">> \o part
         IN parts[3] \o <<"-">> \o padStart2(parts[1])
              \o <<"-">> \o padStart2(parts[2])
    ELSE IF parsedDate.valid THEN toISODate(parsedDate)
    ELSE CurrentDate

\* the SALE DATE or DATE ACQUIRED column of a row: up to MaxDateParts
\* pieces in a row, or no such column
DateTexts ==
  LET DatePieces ==
        {<<"3", "/">>,
         <<"2", "8", "/">>,
         <<"2", "0", "2", "4">>,
         <<"3">>,
         <<"0">>,
         <<"2", "8">>,
         <<"-", "0", "3">>,
         <<"-", "2", "8">>,
         <<" ">>,
         <<"x">>}
  IN {Null} \cup
     {Concat(pieces) :
        pieces \in UNION {[1..n -> DatePieces] : n \in 0..MaxDateParts}}

InitDates ==
  /\ state = DefaultState
  /\ lock = NoLock
  /\ flags = NoFlags
  /\ formVisible = FALSE
  /\ now = TickMs
  /\ submitted = [i \in Ids |-> 0]
  /\ budget = 0
  /\ InitProcs
  /\ dedupe = NoDedupe
  /\ importer = NoImporter
  /\ \E dateString \in DateTexts :
       csv = [NoCsv EXCEPT !.input = dateString]

\* saleDate: this.formatSaleDate(row['SALE DATE'])
FormatDate ==
  /\ csv.fn = "none"
  /\ \E parsedDate \in (IF csv.input = Null THEN {InvalidDate}
                        ELSE DateParse(trim(csv.input))) :
       csv' = [csv EXCEPT !.fn = "formatSaleDate",
                          !.output = formatSaleDate(csv.input, parsedDate)]
  /\ UNCHANGED <<shared, locals, dedupe, importer>>

SpecDates == InitDates /\ [][FormatDate]_vars

\* ============================================ inject.ts: the page importer
\* The storage keys status, index, transactions, currentlyProcessing and
\* currentTransaction, and the one page the script runs on.  transactions
\* is the number of records; the record at index i has id i + 1.  The form
\* page has a submit control.

\* Main execution code on a page that was loaded with the import under way
InitInject ==
  /\ state = DefaultState
  /\ lock = NoLock
  /\ flags = NoFlags
  /\ formVisible = FALSE
  /\ now = TickMs
  /\ submitted = [i \in Ids |-> 0]
  /\ budget = 0
  /\ InitProcs
  /\ dedupe = NoDedupe
  /\ csv = NoCsv
  /\ \E n \in 1..MaxTransactions, onForm \in BOOLEAN :
       importer = [NoImporter EXCEPT !.status = "working",
                                     !.transactions = n,
                                     !.pc = "load",
                                     !.isOnTransactionForm = onForm,
                                     !.submits = [k \in 1..n |-> 0]]

\* checkExistingState: the storage.get callback
checkExistingState ==
  /\ importer.pc = "load"
  /\ IF importer.currentlyProcessing /\ importer.status = "working"
     THEN importer' = [importer EXCEPT !.pc = "recover",
                                       !.items = importer.index]
     ELSE IF importer.status = "working"
     THEN IF /\ importer.isOnTransactionForm
             /\ importer.transactions > 0
             /\ importer.index < importer.transactions
          THEN importer' = [importer EXCEPT !.pc = "preserve",
                                            !.items = importer.index,
                                            !.transaction = importer.index + 1]
          ELSE IF /\ importer.transactions > 0
                  /\ importer.index < importer.transactions
          THEN importer' = [importer EXCEPT !.pc = "navigate",
                                            !.items = importer.index]
          ELSE importer' = [importer EXCEPT !.pc = "stopped",
                                            !.status = "done"]
     ELSE importer' = [importer EXCEPT !.pc = "stopped"]
  /\ UNCHANGED <<shared, locals, dedupe, csv>>

\* checkExistingState, interrupted processing: the flag is cleared and the
\* index moved on; 'done' past the last record, else the state is checked
\* again after the delay
IM_Recover ==
  /\ importer.pc = "recover"
  /\ importer' =
       [importer EXCEPT
          !.currentlyProcessing = FALSE,
          !.index = importer.items + 1,
          !.status = IF importer.items + 1 >= importer.transactions
                     THEN "done" ELSE @,
          !.pc = IF importer.items + 1 >= importer.transactions
                 THEN "stopped" ELSE "load"]
  /\ UNCHANGED <<shared, locals, dedupe, csv>>

\* checkExistingState on the form page: the state is saved again
IM_Preserve ==
  /\ importer.pc = "preserve"
  /\ importer' = [importer EXCEPT !.status = "working",
                                  !.index = importer.items,
                                  !.pc = "mark"]
  /\ UNCHANGED <<shared, locals, dedupe, csv>>

\* checkExistingState off the form page: the state is saved again and
\* navigateToTransactionForm() loads the form page, when it finds the link
IM_Navigate(linkFound) ==
  /\ importer.pc = "navigate"
  /\ importer' = [importer EXCEPT !.status = "working",
                                  !.index = importer.items,
                                  !.isOnTransactionForm = linkFound \/ @,
                                  !.timer = FALSE,
                                  !.pc = IF linkFound THEN "load"
                                         ELSE "stopped"]
  /\ UNCHANGED <<shared, locals, dedupe, csv>>

\* fillAndSubmitCurrentTransaction: the marker is stored; in its callback
\* the form is filled
IM_Mark ==
  /\ importer.pc = "mark"
  /\ importer' = [importer EXCEPT !.currentlyProcessing = TRUE,
                                  !.currentTransaction = importer.transaction,
                                  !.pc = "submit"]
  /\ UNCHANGED <<shared, locals, dedupe, csv>>

\* fillAndSubmitCurrentTransaction after the delay: submitForm() reads the
\* index, and the timer that clears the flag is set
submitFormGet ==
  /\ importer.pc = "submit"
  /\ importer' = [importer EXCEPT !.currentIndex = importer.index,
                                  !.timer = TRUE,
                                  !.pc = "sf_set"]
  /\ UNCHANGED <<shared, locals, dedupe, csv>>

\* submitForm: the index is incremented before the form is submitted
submitFormSet ==
  /\ importer.pc = "sf_set"
  /\ importer' = [importer EXCEPT !.index = importer.currentIndex + 1,
                                  !.pc = "sf_click"]
  /\ UNCHANGED <<shared, locals, dedupe, csv>>

\* submitForm: 'done' is stored with the last record and the submit
\* control is clicked
submitFormClick ==
  /\ importer.pc = "sf_click"
  /\ importer' =
       [importer EXCEPT
          !.status = IF importer.currentIndex + 1 >= importer.transactions
                     THEN "done" ELSE @,
          !.submits[importer.transaction] = @ + 1,
          !.pc = "clicked"]
  /\ UNCHANGED <<shared, locals, dedupe, csv>>

\* the timer of fillAndSubmitCurrentTransaction fires while the page is
\* still there
IM_Timer ==
  /\ importer.pc = "clicked"
  /\ importer.timer
  /\ importer' = [importer EXCEPT !.currentlyProcessing = FALSE,
                                  !.timer = FALSE]
  /\ UNCHANGED <<shared, locals, dedupe, csv>>

\* the submission replaces the page: its timers are gone and the main
\* execution code runs on the new page
IM_Reload(onForm) ==
  /\ importer.pc = "clicked"
  /\ importer' = [importer EXCEPT !.timer = FALSE,
                                  !.isOnTransactionForm = onForm,
                                  !.pc = "load"]
  /\ UNCHANGED <<shared, locals, dedupe, csv>>

NextInject ==
  \/ checkExistingState
  \/ IM_Recover
  \/ IM_Preserve
  \/ \E linkFound \in BOOLEAN : IM_Navigate(linkFound)
  \/ IM_Mark
  \/ submitFormGet
  \/ submitFormSet
  \/ submitFormClick
  \/ IM_Timer
  \/ \E onForm \in BOOLEAN : IM_Reload(onForm)

SpecInject == InitInject /\ [][NextInject]_vars

TypeOK ==
  /\ state.status \in {"IDLE", "PROCESSING", "WAITING_CONFIRMATION",
                       "COMPLETED", "ERROR"}
  /\ lock \in Nat
  /\ \A p \in Proc : result[p] \in {"NONE", "SUCCESS", "RETRY", "FAILED",
                                     "TRUE", "FALSE"}

\* ================================================================== claims
Holding(p) ==
  /\ lockAcquired[p]
  /\ pc[p] \in {"pn_get", "pn_wait", "upd_get", "upd_set", "pn_release"}

Returned(p) == pc[p] = "idle" /\ op[p] = "processNext"

\* C1: two acquireLock() calls that both saw no lock (their get/set steps
\* interleaved) never both return true
C1_LockMutualExclusion ==
  \A p, q \in Proc :
    p # q =>
      ~(/\ pc[p] = "pn_get" /\ lockAcquired[p] /\ existingLock[p] = NoLock
        /\ pc[q] = "pn_get" /\ lockAcquired[q] /\ existingLock[q] = NoLock)

\* C2: no two processNext() invocations are at the same time between their
\* successful lock acquisition and their lock release
C2_AtMostOneInFlight ==
  \A p, q \in Proc : p # q => ~(Holding(p) /\ Holding(q))

\* C3: whenever acquireLock() returns true, the caller's timestamp is the
\* lock token in storage, on the fresh and on the stale-takeover path
C3_TrueRecordsToken ==
  [][\A p \in Proc :
       (pc[p] = "acq_cb" /\ pc'[p] = "pn_get") => lock' = lockTimestamp[p]]_vars

\* C4: an acquireLock() that finds a lock recorded at t returns true when
\* t' - t > timeout and false when t' - t <= timeout, also when the holder
\* crashed and never released
C4_StaleLockTakeover ==
  [][\A p \in Proc :
       (pc[p] = "acq_cb" /\ existingLock[p] # NoLock /\ pc'[p] # "acq_cb") =>
         /\ lockTimestamp[p] - existingLock[p] > LOCK_TIMEOUT
              => (lockAcquired'[p] /\ pc'[p] = "pn_get")
         /\ lockTimestamp[p] - existingLock[p] <= LOCK_TIMEOUT
              => (~lockAcquired'[p] /\ pc'[p] = "idle")]_vars

\* a crashed holder's lock, left in storage, was taken over
C4_Witness ==
  \E p, q \in Proc :
    /\ op[p] = "crashed"
    /\ pc[q] = "pn_get" /\ lockAcquired[q]
    /\ existingLock[q] # NoLock
    /\ lockTimestamp[q] - existingLock[q] > LOCK_TIMEOUT

\* C5: processNext() that finds a live lock returns RETRY and neither of its
\* steps changes the lock, the stored state, the flags or sends a submission
C5_DeniedLeavesStateAlone ==
  [][\A p \in Proc :
       /\ (pc[p] = "idle" /\ pc'[p] = "acq_cb")
            => UNCHANGED <<state, lock, flags, formVisible, submitted>>
       /\ (/\ pc[p] = "acq_cb" /\ pc'[p] # "acq_cb"
           /\ existingLock[p] # NoLock
           /\ lockTimestamp[p] - existingLock[p] <= LOCK_TIMEOUT)
            => /\ result'[p] = "RETRY"
               /\ pc'[p] = "idle"
               /\ UNCHANGED <<state, lock, flags, formVisible, submitted>>]_vars

\* a denied processNext() has returned while the other lock is still there
C5_Witness ==
  \E p \in Proc :
    /\ Returned(p) /\ result[p] = "RETRY" /\ ~lockAcquired[p]
    /\ lock # NoLock
    /\ state.queue # <<>>

\* C6: a processNext() that acquired the lock has removed the lock token when
\* it returns, whatever its outcome; with one context no token is left
C6_LockReleasedOnReturn ==
  \A p \in Proc : (Returned(p) /\ lockAcquired[p]) => lock = NoLock

\* processNext() has returned FAILED through the catch block
C6_Witness ==
  /\ Returned(1) /\ lockAcquired[1]
  /\ result[1] = "FAILED"
  /\ state.status = "ERROR"
  /\ state.queue # <<>>

\* the record's submission is out, or its RETRY is not yet written back
InFlight(id) ==
  \E p \in Proc :
    /\ transactionId[p] = id
    /\ \/ pc[p] = "pn_wait"
       \/ pc[p] \in {"upd_get", "upd_set"} /\ result[p] = "RETRY"

\* C7: with submissions that always yield RETRY, a record is submitted once
\* per attempt and at most MAX_RETRY_ATTEMPTS times, and it is in
\* failedTransactions only after exactly MAX_RETRY_ATTEMPTS submissions
C7_RetryBound ==
  /\ \A i \in Ids : submitted[i] <= MAX_RETRY_ATTEMPTS
  /\ \A j \in 1..Len(state.failedTransactions) :
       LET t == state.failedTransactions[j] IN
         /\ t.processingAttempts = MAX_RETRY_ATTEMPTS
         /\ submitted[t.id] = MAX_RETRY_ATTEMPTS
  /\ \A j \in 1..Len(state.queue) :
       LET t == state.queue[j] IN
         submitted[t.id] =
           t.processingAttempts +
             (IF InFlight(t.id) THEN 1 ELSE 0)

\* a record reached failedTransactions after its third RETRY
C7_Witness ==
  /\ Len(state.failedTransactions) > 0
  /\ state.failedTransactions[1].processingAttempts = MAX_RETRY_ATTEMPTS
  /\ submitted[state.failedTransactions[1].id] = MAX_RETRY_ATTEMPTS

\* C8: the persisted queue never holds two records with the same fingerprint
\* (description, saleDate, salesPrice and costBasis rounded to 2 decimals),
\* whatever operations wrote it
C8_QueueNoDuplicates == NoDuplicates(state.queue)

\* queueTransactions appended a two-record batch to its snapshot and the
\* write went through updateState, yet the persisted queue is shorter than
\* snapshot plus batch: a record repeating a fingerprint was dropped
C8_Witness ==
  \E p \in Proc :
    /\ op[p] = "queueTransactions"
    /\ pc[p] = "sp_start"
    /\ state.queue # <<>>
    /\ Len(state.queue) < Len(currentState[p].queue) + 2

\* C9: the write of a TRANSACTION_PROCESSED{transactionId: X, success: true}
\* handler takes exactly the record X out of the persisted queue: every other
\* record that was there stays, in order, and no record comes back
C9_ConfirmedRemovalExact ==
  [][\A p \in Proc :
       (pc[p] = "upd_set" /\ ret[p] = "tp_clear" /\ pc'[p] = "tp_clear")
         => state'.queue = FilterOutId(state.queue, transactionId[p])]_vars

\* C10: when the recovery of a pending record completes with records left in
\* the queue, on browser startup (the marker keys are removed) as on page
\* load (the marker is reset), the coordinator goes on to dispatch the next
\* head record
C10_RecoveryResumes ==
  [][\A p \in Proc :
       /\ (pc[p] = "st_clear" /\ pc'[p] # "st_clear" /\ state.queue # <<>>)
            => pc'[p] = "dp_get"
       /\ (pc[p] = "in_reset" /\ pc'[p] # "in_reset" /\ state.queue # <<>>)
            => pc'[p] = "dp_get"]_vars

\* C11: the startProcessing() that queueTransactions triggers after its write
\* gets past the re-entrancy guard into the processing loop
C11_QueueingStartsLoop ==
  [][\A p \in Proc :
       (op[p] = "queueTransactions" /\ pc[p] = "sp_start"
          /\ pc'[p] # "sp_start")
         => pc'[p] = "sp_loop"]_vars

\* C12: startProcessing() that reads status PROCESSING returns at once: no
\* processNext() call, no lock taken, status, queue and failedTransactions
\* as they were
C12_ReentrancyGuard ==
  [][\A p \in Proc :
       (pc[p] = "sp_start" /\ state.status = "PROCESSING"
          /\ pc'[p] # "sp_start")
         => /\ pc'[p] = "idle"
            /\ state' = state
            /\ lock' = lock
            /\ submitted' = submitted]_vars

\* a startProcessing() call came back without a result while records wait
\* under status PROCESSING
C12_Witness ==
  \E p \in Proc :
    /\ op[p] = "startProcessing"
    /\ pc[p] = "idle"
    /\ result[p] = "NONE"
    /\ state.status = "PROCESSING"
    /\ state.queue # <<>>

ImportOps == {"queueTransactions", "addTransaction", "PROCESS_CSV",
              "START_IMPORT"}

\* C14: a persisted status COMPLETED or ERROR changes only to PROCESSING, and
\* only by the write of an import (queueTransactions, addTransaction,
\* PROCESS_CSV, START_IMPORT)
C14_TerminalStatuses ==
  [][(state.status \in {"COMPLETED", "ERROR"}
        /\ state'.status # state.status)
       => /\ state'.status = "PROCESSING"
          /\ \E p \in Proc : /\ pc[p] = "upd_set"
                              /\ pc'[p] # "upd_set"
                              /\ op[p] \in ImportOps]_vars

\* C15: with one processing context, the record submitted is the head of the
\* persisted queue, and every record behind it has yielded RETRY at least as
\* often as the head: a retried record is not submitted again before the
\* records that waited behind it had their turn
C15_FifoSubmissionOrder ==
  [][\A p \in Proc :
       (pc[p] = "pn_get" /\ pc'[p] = "pn_wait")
         => /\ transactionId'[p] = Head(state.queue).id
            /\ \A i \in Ids :
                 submitted'[i] # submitted[i] => i = Head(state.queue).id
            /\ \A j \in 2..Len(state.queue) :
                 state.queue[j].processingAttempts
                   >= Head(state.queue).processingAttempts]_vars

\* a record that yielded RETRY is submitted again, with another record,
\* submitted in between, waiting behind it
C15_Witness ==
  \E p \in Proc :
    /\ pc[p] = "pn_wait"
    /\ Len(state.queue) >= 2
    /\ Head(state.queue).processingAttempts >= 1
    /\ Head(state.queue).id = transactionId[p]
    /\ submitted[state.queue[2].id] >= 1

\* processNextTransaction returns to its caller (the context is not torn down)
PN_Returns(p) ==
  /\ pc[p] = "pn_release"
  /\ pc'[p] # "pn_release"
  /\ op'[p] = op[p]

\* the updateState() of a switch case or of the retry check is written
PN_Writes(p) ==
  /\ pc[p] = "upd_set"
  /\ ret[p] = "pn_release"
  /\ pc'[p] = "pn_release"

\* C16: when the submission of the head returns SUCCESS, processNext()
\* removes exactly the head from the queue, leaves failedTransactions
\* unchanged, sets the status to COMPLETED if the queue is now empty and to
\* PROCESSING otherwise, and returns SUCCESS
C16_SuccessOutcome ==
  [][\A p \in Proc :
       /\ (PN_Writes(p) /\ result[p] = "SUCCESS")
            => /\ state'.queue = Tail(state.queue)
               /\ Head(state.queue).id = transactionId[p]
               /\ state'.failedTransactions = state.failedTransactions
               /\ state'.status = IF Tail(state.queue) = <<>>
                                  THEN "COMPLETED" ELSE "PROCESSING"
       /\ (PN_Returns(p) /\ result[p] = "SUCCESS"
             /\ currentState[p].queue # <<>>)
            => /\ result'[p] = "SUCCESS"
               /\ state' = state
               /\ state.queue = Tail(currentState[p].queue)]_vars

\* a SUCCESS was written with a record still queued behind the head
C16_Witness ==
  \E p \in Proc :
    /\ pc[p] = "pn_release"
    /\ result[p] = "SUCCESS"
    /\ Len(currentState[p].queue) = 2
    /\ state.queue = Tail(currentState[p].queue)
    /\ state.status = "PROCESSING"
    /\ submitted[transactionId[p]] >= 1

\* C17: when the submission of the head returns RETRY, processNext() adds one
\* to that record's processingAttempts, sets its lastAttemptTimestamp, moves
\* it to the tail of the queue with the other records' order and counters
\* unchanged, leaves failedTransactions unchanged, sets the status to
\* WAITING_CONFIRMATION, and returns RETRY
C17_RetryOutcome ==
  [][\A p \in Proc :
       /\ (PN_Writes(p) /\ result[p] = "RETRY")
            => LET transaction == Head(state.queue)
                   n == Len(state.queue)
                   moved == state'.queue[n]
               IN /\ Len(state'.queue) = n
                  /\ SubSeq(state'.queue, 1, n - 1) = Tail(state.queue)
                  /\ moved = [transaction EXCEPT
                                !.processingAttempts =
                                   transaction.processingAttempts + 1,
                                !.lastAttemptTimestamp =
                                   moved.lastAttemptTimestamp]
                  /\ moved.lastAttemptTimestamp >= TickMs
                  /\ moved.lastAttemptTimestamp <= now
                  /\ state'.failedTransactions = state.failedTransactions
                  /\ state'.status = "WAITING_CONFIRMATION"
       /\ (PN_Returns(p) /\ result[p] = "RETRY" /\ lockAcquired[p])
            => /\ result'[p] = "RETRY"
               /\ state' = state]_vars

\* a RETRY was written for the head of a two-record queue
C17_Witness ==
  \E p \in Proc :
    /\ pc[p] = "pn_release"
    /\ result[p] = "RETRY"
    /\ lockAcquired[p]
    /\ Len(state.queue) = 2
    /\ state.queue[2].id = transactionId[p]
    /\ state.queue[2].processingAttempts = 1
    /\ state.queue[1].processingAttempts = 0
    /\ state.status = "WAITING_CONFIRMATION"

\* C18: when the submission of the head returns FAILED, processNext()
\* removes the head from the queue, appends it to the tail of
\* failedTransactions, sets the status to ERROR if the queue is now empty
\* and to PROCESSING otherwise, and returns FAILED
C18_FailedOutcome ==
  [][\A p \in Proc :
       /\ (PN_Writes(p) /\ result[p] = "FAILED"
             /\ updates[p].status # <<>> /\ updates[p].queue # <<>>)
            => /\ state'.queue = Tail(state.queue)
               /\ Head(state.queue).id = transactionId[p]
               /\ state'.failedTransactions =
                    Append(state.failedTransactions, Head(state.queue))
               /\ state'.status = IF Tail(state.queue) = <<>>
                                  THEN "ERROR" ELSE "PROCESSING"
       /\ (PN_Returns(p) /\ result[p] = "FAILED")
            => /\ result'[p] = "FAILED"
               /\ state' = state]_vars

\* a submitted head was written to failedTransactions with a record still
\* queued behind it
C18_Witness ==
  \E p \in Proc :
    /\ pc[p] = "pn_release"
    /\ result[p] = "FAILED"
    /\ state.status = "PROCESSING"
    /\ state.queue # <<>>
    /\ state.failedTransactions # <<>>
    /\ LET last == state.failedTransactions[Len(state.failedTransactions)]
       IN /\ last.id = transactionId[p]
          /\ last.processingAttempts < MAX_RETRY_ATTEMPTS
          /\ submitted[last.id] >= 1

\* C19: when the head's processingAttempts is already MAX_RETRY_ATTEMPTS or
\* more, processNext() does not submit it, moves it from the head of the
\* queue to the tail of failedTransactions with the remaining queue order
\* unchanged, and returns FAILED
C19_RetriesExhausted ==
  [][\A p \in Proc :
       /\ (/\ pc[p] = "pn_get" /\ pc'[p] # "pn_get" /\ op'[p] = op[p]
           /\ state.queue # <<>>
           /\ Head(state.queue).processingAttempts >= MAX_RETRY_ATTEMPTS)
            => /\ pc'[p] = "upd_get"
               /\ result'[p] = "FAILED"
               /\ submitted' = submitted
       /\ (/\ PN_Writes(p)
           /\ Head(currentState[p].queue).processingAttempts
                >= MAX_RETRY_ATTEMPTS)
            => /\ result[p] = "FAILED"
               /\ state'.queue = Tail(state.queue)
               /\ state'.failedTransactions =
                    Append(state.failedTransactions, Head(state.queue))
       /\ (/\ PN_Returns(p)
           /\ currentState[p].queue # <<>>
           /\ Head(currentState[p].queue).processingAttempts
                >= MAX_RETRY_ATTEMPTS)
            => result'[p] = "FAILED"]_vars

\* an exhausted head was moved to failedTransactions, not submitted again
C19_Witness ==
  \E p \in Proc :
    /\ pc[p] = "pn_release"
    /\ result[p] = "FAILED"
    /\ state.queue # <<>>
    /\ state.failedTransactions # <<>>
    /\ LET last == state.failedTransactions[Len(state.failedTransactions)]
       IN /\ last.id = transactionId[p]
          /\ last.processingAttempts = MAX_RETRY_ATTEMPTS
          /\ submitted[last.id] <= MAX_RETRY_ATTEMPTS + 1

\* C20: processNext() on an empty queue with no lock held returns SUCCESS,
\* submits nothing, leaves status, queue and failedTransactions unchanged,
\* and leaves no lock held
C20_EmptyQueue ==
  [][\A p \in Proc :
       /\ (/\ pc[p] = "pn_get" /\ pc'[p] # "pn_get" /\ op'[p] = op[p]
           /\ state.queue = <<>>)
            => /\ pc'[p] = "pn_release"
               /\ result'[p] = "SUCCESS"
               /\ submitted' = submitted
               /\ state' = state
       /\ (PN_Returns(p) /\ currentState[p].queue = <<>>)
            => /\ pc'[p] = "idle"
               /\ result'[p] = "SUCCESS"
               /\ submitted' = submitted
               /\ state' = state
               /\ state = currentState[p]
               /\ lock' = NoLock]_vars

\* processNext() has returned SUCCESS from a queue emptied by earlier calls
C20_Witness ==
  \E p \in Proc :
    /\ Returned(p)
    /\ lockAcquired[p]
    /\ result[p] = "SUCCESS"
    /\ transactionId[p] = NoId
    /\ state.queue = <<>>
    /\ state.status = "COMPLETED"
    /\ lock = NoLock


\* C21: when an exception is thrown inside processNext() after the lock was
\* acquired, processNext() returns FAILED, the persisted status becomes
\* ERROR, the queue and failedTransactions are as they were, and the lock is
\* released
C21_ExceptionOutcome ==
  [][\A p \in Proc :
       /\ (/\ pc[p] = "pn_get" /\ pc'[p] = "upd_get"
           /\ state.queue # <<>>
           /\ Head(state.queue).processingAttempts < MAX_RETRY_ATTEMPTS)
            => /\ lockAcquired[p]
               /\ result'[p] = "FAILED"
       /\ (/\ PN_Writes(p) /\ result[p] = "FAILED"
           /\ updates[p].failedTransactions = <<>>)
            => /\ lockAcquired[p]
               /\ state'.status = "ERROR"
               /\ state'.queue = state.queue
               /\ state'.failedTransactions = state.failedTransactions
       /\ (PN_Returns(p) /\ result[p] = "FAILED" /\ lockAcquired[p])
            => /\ result'[p] = "FAILED"
               /\ lock' = NoLock
               /\ state' = state]_vars

\* the catch block has written ERROR and the record is still at the head
C21_Witness ==
  \E p \in Proc :
    /\ pc[p] = "pn_release"
    /\ lockAcquired[p]
    /\ result[p] = "FAILED"
    /\ state.status = "ERROR"
    /\ state.queue # <<>>
    /\ state.queue = currentState[p].queue
    /\ state.failedTransactions = currentState[p].failedTransactions
    /\ Head(state.queue).id = transactionId[p]


\* C22: a record whose submission returned FAILED stays eligible for
\* re-submission: a record is in failedTransactions only once it has had
\* MAX_RETRY_ATTEMPTS attempts
C22_FailedOnlyAfterRetries ==
  \A j \in 1..Len(state.failedTransactions) :
    state.failedTransactions[j].processingAttempts >= MAX_RETRY_ATTEMPTS

\* C23: whenever processNext() returns with an empty queue the status is
\* neither PROCESSING nor WAITING_CONFIRMATION, and it is ERROR when the
\* call emptied the queue by moving an exhausted record to
\* failedTransactions
C23_ExhaustedSurfacedByStatus ==
  [][\A p \in Proc :
       (PN_Returns(p) /\ pc'[p] = "idle" /\ state.queue = <<>>)
         => /\ state.status \notin {"PROCESSING", "WAITING_CONFIRMATION"}
            /\ (/\ currentState[p].queue # <<>>
                /\ Head(currentState[p].queue).processingAttempts
                     >= MAX_RETRY_ATTEMPTS)
                 => state.status = "ERROR"]_vars


\* C24: deduplicating a deduplicated list gives the same records in the
\* same order, for both deduplicateTransactions copies
C24_DedupIdempotent ==
  [][(dedupe.calls = 1 /\ dedupe'.calls = 2)
       => dedupe'.deduplicated = dedupe.deduplicated]_vars

\* a list with a duplicate was deduplicated twice
C24_Witness ==
  /\ dedupe.calls = 2
  /\ Len(dedupe.deduplicated) >= 2
  /\ Len(dedupe.deduplicated) < Len(dedupe.transactions)

\* positions of the records that are the first with their fingerprint
FirstOccurrences(ts) ==
  {i \in 1..Len(ts) :
     \A j \in 1..(i - 1) : Fingerprint(ts[j]) # Fingerprint(ts[i])}

\* C25: the result holds, for each fingerprint of the input, the first
\* input record with it (id and processingAttempts included) and nothing
\* else, in the order of these first occurrences
C25_DedupFirstOccurrenceWins ==
  dedupe.calls = 1 =>
    LET first == FirstOccurrences(dedupe.transactions) IN
      /\ Len(dedupe.deduplicated) = Cardinality(first)
      /\ \A i \in first :
           dedupe.deduplicated[Cardinality({j \in first : j <= i})]
             = dedupe.transactions[i]

\* a later record with another id lost to the first of its fingerprint,
\* with a record of another fingerprint between them
C25_Witness ==
  /\ dedupe.calls = 1
  /\ Len(dedupe.transactions) = 3
  /\ Fingerprint(dedupe.transactions[3]) = Fingerprint(dedupe.transactions[1])
  /\ Fingerprint(dedupe.transactions[2]) # Fingerprint(dedupe.transactions[1])
  /\ dedupe.deduplicated = SubSeq(dedupe.transactions, 1, 2)

\* the amount cut after its second decimal
Truncate2(x) == x \div 10

\* C26: two records with equal description and saleDate whose salesPrice
\* and costBasis agree in their first two decimals are collapsed to one
\* record
C26_PrecisionInvariance ==
  dedupe.calls = 1 =>
    \A i, j \in 1..Len(dedupe.transactions) :
      LET t == dedupe.transactions[i]
          u == dedupe.transactions[j]
      IN (/\ i < j
          /\ t.description = u.description
          /\ t.saleDate = u.saleDate
          /\ Truncate2(t.salesPrice) = Truncate2(u.salesPrice)
          /\ Truncate2(t.costBasis) = Truncate2(u.costBasis))
           => \A k \in 1..Len(dedupe.deduplicated) :
                dedupe.deduplicated[k].id # u.id


\* the operations that put imported records into the queue
QueueingOps == {"queueTransactions", "PROCESS_CSV", "addTransaction"}

\* C27: an import whose records all have fingerprints already in the queue
\* leaves the queue as it was: same length, same records with their ids and
\* processingAttempts, same order
C27_ImportIdempotent ==
  [][\A p \in Proc :
       /\ (/\ pc[p] = "upd_set" /\ pc'[p] # "upd_set"
           /\ op[p] \in QueueingOps /\ op'[p] = op[p]
           /\ \A j \in 1..Len(updates[p].queue[1]) :
                HasFingerprint(state.queue, updates[p].queue[1][j]))
            => state'.queue = state.queue
       /\ (pc[p] = "idle" /\ pc'[p] = "upd_get" /\ op'[p] = "addTransaction")
            => LET queue == updates'[p].queue[1]
               IN ~HasFingerprint(state.queue, queue[Len(queue)])
       /\ (/\ pc[p] = "idle" /\ pc'[p] = "idle" /\ budget' < budget
           /\ op'[p] = "addTransaction")
            => state' = state]_vars

\* a batch was queued a second time after one of its records was retried
C27_Witness ==
  \E p \in Proc :
    /\ op[p] = "queueTransactions"
    /\ pc[p] = "sp_start"
    /\ Len(state.queue) = 2
    /\ state.queue = currentState[p].queue
    /\ \E j \in 1..2 : state.queue[j].processingAttempts >= 1

\* C28: removeById(id) of a queued record removes exactly that record,
\* keeps the order of the others, returns true and sets the status to IDLE
\* if the queue is now empty (the status is unchanged otherwise); with no
\* such record it returns false and changes nothing
C28_RemoveById ==
  [][\A p \in Proc :
       /\ (/\ pc[p] = "idle" /\ budget' < budget
           /\ op'[p] = "removeTransactionById")
            => IF HasId(state.queue, transactionId'[p])
               THEN pc'[p] = "upd_get" /\ result'[p] = "TRUE"
               ELSE pc'[p] = "idle" /\ result'[p] = "FALSE" /\ state' = state
       /\ (/\ pc[p] = "upd_set" /\ pc'[p] = "idle"
           /\ op[p] = "removeTransactionById" /\ op'[p] = op[p])
            => /\ result'[p] = "TRUE"
               /\ \E k \in 1..Len(state.queue) :
                    /\ state.queue[k].id = transactionId[p]
                    /\ state'.queue =
                         SubSeq(state.queue, 1, k - 1)
                           \o SubSeq(state.queue, k + 1, Len(state.queue))
               /\ state'.failedTransactions = state.failedTransactions
               /\ state'.status = IF state'.queue = <<>> THEN "IDLE"
                                  ELSE state.status]_vars

\* a record was removed from a queue that still holds another one
C28_Witness ==
  \E p \in Proc :
    /\ op[p] = "removeTransactionById"
    /\ pc[p] = "idle"
    /\ result[p] = "TRUE"
    /\ state.queue # <<>>
    /\ state.status = "PROCESSING"
    /\ ~HasId(state.queue, transactionId[p])

\* C30: queueTransactions(records) enqueues every record that has an id and
\* a processingAttempts counter with that id and that counter
C30_QueueingKeepsCounters ==
  [][\A p \in Proc :
       (pc[p] = "idle" /\ pc'[p] = "upd_get" /\ op'[p] = "queueTransactions")
         => \E b \in QueueInputs :
              LET queue == updates'[p].queue[1]
                  n == Len(state.queue)
              IN /\ Len(queue) = n + Len(b)
                 /\ \A j \in 1..Len(b) :
                      /\ queue[n + j].id = b[j].id
                      /\ queue[n + j].processingAttempts
                           = b[j].processingAttempts]_vars


\* C29: clearState(), whoever calls it, leaves status, queue and
\* failedTransactions at their defaults and the page flags (isProcessing,
\* currentTransactionId, addTransactionClicked, pendingCompletion,
\* pendingTransactionId) cleared
C29_ClearStateClearsFlags ==
  [][\A p \in Proc :
       (pc[p] = "cl_state" /\ pc'[p] = "idle")
         => state' = DefaultState /\ flags' = NoFlags]_vars

\* the classification as the claim words it, every test on the upper-cased
\* description
ClaimedTransactionType(description) ==
  LET u == toUpperCase(description) IN
    IF description = <<>> THEN "OTHER"
    ELSE IF \/ includes(u, <<" ", "C", "A", "L", "L", " ">>)
            \/ includes(u, <<" ", "P", "U", "T", " ">>)
    THEN "OPTION"
    ELSE IF \E keyword \in cryptoKeywords : includes(u, keyword)
    THEN "CRYPTO"
    ELSE IF DigitsThenC(u) THEN "CRYPTO"
    ELSE "STOCK"

\* C31: determineTransactionType classifies in a fixed order, without regard
\* to case: empty is OTHER; ' CALL ' or ' PUT ' is OPTION; else a crypto
\* keyword is CRYPTO; else a digit followed by one trailing C is CRYPTO;
\* every other description, also one ending in a C that follows no digit,
\* is STOCK
C31_TransactionTypeOrder ==
  csv.fn = "determineTransactionType" =>
    csv.output = ClaimedTransactionType(csv.input)

\* YYYY-MM-DD: four digits, two digits, two digits, dashes between
IsDateForm(s) ==
  /\ Len(s) = 10
  /\ s[5] = "-" /\ s[8] = "-"
  /\ IsDigits(SubSeq(s, 1, 4) \o SubSeq(s, 6, 7) \o SubSeq(s, 9, 10))

\* C32: every formatted date has the form YYYY-MM-DD: eight digits are
\* rewritten with the same digits, M/D/YYYY and MM/DD/YYYY with month and
\* day zero-padded, and any other value, parseable or not, still gives a
\* date of that form
C32_DateNormalization ==
  csv.fn = "formatSaleDate" =>
    /\ IsDateForm(csv.output)
    /\ csv.input # Null =>
         LET dateStr == trim(csv.input) IN
           /\ IsYYYYMMDD(dateStr) =>
                /\ SubSeq(csv.output, 1, 4) = SubSeq(dateStr, 1, 4)
                /\ SubSeq(csv.output, 6, 7) = SubSeq(dateStr, 5, 6)
                /\ SubSeq(csv.output, 9, 10) = SubSeq(dateStr, 7, 8)
           /\ IsMMDDYYYY(dateStr) =>
                /\ SubSeq(csv.output, 1, 4) = SlashParts(dateStr)[3]
                /\ ToNat(SubSeq(csv.output, 6, 7))
                     = ToNat(SlashParts(dateStr)[1])
                /\ ToNat(SubSeq(csv.output, 9, 10))
                     = ToNat(SlashParts(dateStr)[2])

\* a PROCESS_TRANSACTION message of the coordinator is with the page, which
\* has not yet clicked submit for it
Dispatched(p) ==
  /\ op[p] \in {"PROCESS_NEXT_TRANSACTION", "START_IMPORT"}
  /\ pc[p] \in {"pt_set", "add_click", "add_set", "fill", "submit_click"}

\* C33: the coordinator's dispatch paths (PROCESS_NEXT_TRANSACTION,
\* START_IMPORT) are serialized: while one PROCESS_TRANSACTION dispatch is
\* unconfirmed, neither the same head nor another record is dispatched
C33_DispatchSerialized ==
  \A p, q \in Proc : p # q => ~(Dispatched(p) /\ Dispatched(q))

\* C34: in both page flows the in-flight marker of the record is in storage
\* before the submit click, so that every page load a submit causes finds
\* the marker of the submitted record
C34_PersistBeforeReload ==
  [][(importer.pc = "clicked" /\ importer'.pc = "load") =>
       /\ importer.currentlyProcessing
       /\ importer.currentTransaction = importer.transaction]_vars

\* the submissions of the import so far
RECURSIVE SumSubmits(_)
SumSubmits(submits) ==
  IF submits = <<>> THEN 0 ELSE Head(submits) + SumSubmits(Tail(submits))

\* C35: in the page-attached import the stored index advances by exactly
\* one per submitted transaction whenever the reload comes, so every
\* transaction is submitted exactly once and 'done' is stored only after the
\* last one was submitted
C35_IndexPerSubmission ==
  /\ \A k \in 1..importer.transactions : importer.submits[k] <= 1
  /\ importer.pc = "load" => importer.index = SumSubmits(importer.submits)
  /\ importer.status = "done" =>
       \A k \in 1..importer.transactions : importer.submits[k] = 1

\* C36: a record that an import (PROCESS_CSV, START_IMPORT,
\* queueTransactions, addTransaction) put into the queue while a
\* processNext() submission was in flight is still in the queue when
\* processNext() has written its outcome back
C36_NoLostImport ==
  [][\A p \in Proc :
       (/\ pc[p] = "upd_set" /\ pc'[p] = "pn_release"
        /\ lockAcquired[p]
        /\ result[p] \in {"SUCCESS", "RETRY", "FAILED"}
        /\ submitted[Head(currentState[p].queue).id] > 0) =>
         \A id \in Ids :
           (HasId(state.queue, id) /\ ~HasId(currentState[p].queue, id))
             => HasId(state'.queue, id)]_vars

\* C37: once clearState / CLEAR_TRANSACTIONS has completed, no record that
\* was in the queue or in failedTransactions before it is in either again,
\* also when a processNext() or a TRANSACTION_PROCESSED handler was in
\* flight across the clear.  No import is under way, so a record that
\* comes back comes from before the clear.
C37_ClearIsFinal ==
  [][\A p \in Proc :
       (/\ state.queue = <<>> /\ state.failedTransactions = <<>>
        /\ \E q \in Proc : pc[q] = "idle" /\ op[q] \in {"CLEAR_TRANSACTIONS",
                                                        "clearTransactions"}
        /\ \A q \in Proc : op[q] \notin {"queueTransactions", "PROCESS_CSV",
                                         "addTransaction"})
         => (state'.queue = <<>> /\ state'.failedTransactions = <<>>)]_vars

\* C38: the page sends TRANSACTION_PROCESSED{success: true} for a record
\* only when the submit click for that record was made, that is with
\* pendingCompletion set and pendingTransactionId naming the record; a
\* page load between the dispatch and the submit reports nothing
C38_ProcessedOnlyAfterSubmit ==
  [][\A p \in Proc :
       (pc[p] \in {"in_get", "cps_get"} /\ pc'[p] = "tp_get") =>
         /\ flags.pendingCompletion
         /\ flags.pendingTransactionId = transactionId'[p]]_vars

\* a list is the beginning of another
IsPrefix(s, t) == Len(s) <= Len(t) /\ SubSeq(t, 1, Len(s)) = s

\* C39: with one processing context, every record that is in the queue
\* before a processNext() call is afterwards in exactly one of the queue and
\* failedTransactions, except the head when the result is SUCCESS, which is
\* in neither; failedTransactions keeps its elements and their order; no
\* id is in both lists
C39_RecordConservation ==
  [][state' # state =>
       /\ \A id \in Ids :
            HasId(state.queue, id) =>
              IF result[1] = "SUCCESS" /\ id = Head(state.queue).id
              THEN /\ ~HasId(state'.queue, id)
                   /\ ~HasId(state'.failedTransactions, id)
              ELSE HasId(state'.queue, id)
                     # HasId(state'.failedTransactions, id)
       /\ IsPrefix(state.failedTransactions, state'.failedTransactions)
       /\ \A id \in Ids : ~(/\ HasId(state'.queue, id)
                            /\ HasId(state'.failedTransactions, id))]_vars

\* the head failed and went to failedTransactions while another record
\* stayed in the queue
C39_Witness ==
  /\ pc[1] = "pn_release"
  /\ result[1] = "FAILED"
  /\ Len(state.failedTransactions) = 1
  /\ Len(state.queue) = 1
  /\ state.queue[1].id # state.failedTransactions[1].id

\* C40: when the startProcessing loop has stopped on FAILED with records
\* left in the queue, a later startProcessing() is not turned away by the
\* re-entrancy guard (the status it reads is not PROCESSING), so that the
\* loop runs again and the queue can drain
C40_ResumeAfterFailed ==
  [][(/\ pc[1] = "idle" /\ op[1] = "startProcessing"
      /\ result[1] = "FAILED"
      /\ state.queue # <<>>
      /\ pc'[1] = "sp_start")
       => state.status # "PROCESSING"]_vars

====
